---- MODULE Spec2Model ----
(***************************************************************************)
(* A model of the Intel 8080 emulator core: bit/byte utilities, register   *)
(* file, memory, ALU, instruction decoder and execution engine.            *)
(*                                                                         *)
(* Every fallible function of the source returns a record                  *)
(*   [st |-> "ok" | "err" | "panic", ...]                                  *)
(* where "err" is a returned Err(..) and "panic" is a Rust panic (process  *)
(* abort).  Functions that take &mut self also return the mutated object,  *)
(* so that the effects made before an early return (the ? operator) are    *)
(* kept exactly as the code keeps them.                                    *)
(***************************************************************************)
EXTENDS Integers, Sequences, FiniteSets, TLC

VARIABLES
    cpu,              \* the Cpu struct (cpu.rs:52-62) and what its callback has observed
    init_cpu,         \* ghost: the Cpu as the host set it up, before the first call
    pre,              \* ghost: the Cpu before the last call
    calls,            \* ghost: the calls made so far, each with its result
    overflow_checks   \* build profile: TRUE = arithmetic overflow panics (dev/test), FALSE = wraps (release)

vars == <<cpu, init_cpu, pre, calls, overflow_checks>>

----------------------------------------------------------------------------
(* Machine integers *)

U8 == 0..255
U16 == 0..65535

Pow2(n) == 2 ^ n

\* x >> n and x << n on a w-bit unsigned integer
Shr(x, n) == x \div Pow2(n)
Shl(x, n, w) == (x * Pow2(n)) % Pow2(w)

Bit(x, i) == (x \div Pow2(i)) % 2

RECURSIVE BitAnd(_, _)
BitAnd(x, y) ==
    IF x = 0 \/ y = 0 THEN 0
    ELSE (x % 2) * (y % 2) + 2 * BitAnd(x \div 2, y \div 2)

RECURSIVE BitOr(_, _)
BitOr(x, y) ==
    IF x = 0 THEN y
    ELSE IF y = 0 THEN x
    ELSE (IF x % 2 = 1 \/ y % 2 = 1 THEN 1 ELSE 0) + 2 * BitOr(x \div 2, y \div 2)

RECURSIVE BitXor(_, _)
BitXor(x, y) ==
    IF x = 0 THEN y
    ELSE IF y = 0 THEN x
    ELSE ((x + y) % 2) + 2 * BitXor(x \div 2, y \div 2)

\* u8::count_ones
RECURSIVE count_ones(_)
count_ones(x) == IF x = 0 THEN 0 ELSE (x % 2) + count_ones(x \div 2)

\* the plain + operator on a w-bit unsigned integer: panics on overflow when
\* the build checks overflow, wraps otherwise
PlainAdd(x, y, w, checks) ==
    IF x + y >= Pow2(w)
    THEN IF checks THEN [st |-> "panic"] ELSE [st |-> "ok", v |-> (x + y) % Pow2(w)]
    ELSE [st |-> "ok", v |-> x + y]

wrapping_add(x, y, w) == (x + y) % Pow2(w)
wrapping_sub(x, y, w) == (x - y + Pow2(w)) % Pow2(w)
wrapping_neg(x, w) == (Pow2(w) - x) % Pow2(w)

----------------------------------------------------------------------------
(* utils.rs *)

\* [1] is the MSB (the source's bits[0])
get_bits(x) == [k \in 1..8 |-> Shr(x, 8 - k) % 2]

RECURSIVE from_bits_loop(_, _, _)
from_bits_loop(bits, i, x) ==
    IF i > 8 THEN x
    ELSE from_bits_loop(bits, i + 1, x + bits[i] * Shr(128, i - 1))

from_bits(bits) == from_bits_loop(bits, 1, 0)

combine_values(higher, lower) == Shl(higher, 8, 16) + lower

separate_values(value) == <<Shr(value, 8) % 256, value % 256>>

----------------------------------------------------------------------------
(* registers.rs: RegisterValue *)

Integer8(v) == [t |-> "Integer8", v |-> v]
Integer16(v) == [t |-> "Integer16", v |-> v]
Integer8Pair(h, l) == [t |-> "Integer8Pair", h |-> h, l |-> l]

\* impl From<RegisterValue> for u16
ToU16(rv) ==
    IF rv.t = "Integer8" THEN rv.v
    ELSE IF rv.t = "Integer8Pair" THEN combine_values(rv.h, rv.l)
    ELSE rv.v

\* impl TryFrom<RegisterValue> for u8
TryToU8(rv) ==
    IF rv.t = "Integer8" THEN [st |-> "ok", v |-> rv.v] ELSE [st |-> "err"]

\* impl PartialEq for RegisterValue
RvEq(a, b) == ToU16(a) = ToU16(b)

RvBytes(rv) == IF rv.t = "Integer8" THEN 1 ELSE 2

\* RegisterValue::try_add.  With an Integer8Pair on the right the code
\* re-calls itself with the same right operand, so the call never returns:
\* the recursion either overflows the stack or spins ("hang").
try_add(self, rhs, checks) ==
    LET lhs == IF self.t = "Integer8Pair"
               THEN Integer16(combine_values(self.h, self.l)) ELSE self
    IN  IF rhs.t = "Integer8Pair" THEN [st |-> "hang"]
        ELSE IF lhs.t = "Integer8" /\ rhs.t = "Integer8"
        THEN LET s == PlainAdd(lhs.v, rhs.v, 8, checks)
             IN  IF s.st = "ok" THEN [st |-> "ok", v |-> Integer8(s.v)] ELSE s
        ELSE IF lhs.t = "Integer16" /\ rhs.t = "Integer16"
        THEN LET s == PlainAdd(lhs.v, rhs.v, 16, checks)
             IN  IF s.st = "ok" THEN [st |-> "ok", v |-> Integer16(s.v)] ELSE s
        ELSE [st |-> "err"]

----------------------------------------------------------------------------
(* registers.rs: Register and RegisterArray *)

Registers8 == {"B", "C", "D", "E", "H", "L", "W", "Z"}
Registers16 == {"PC", "SP", "BC", "DE", "HL", "WZ", "PSW"}
Register == Registers8 \cup Registers16

RegBytes(register) == IF register \in Registers8 THEN 1 ELSE 2

RegisterArrayNew ==
    [program_counter |-> 0, stack_pointer |-> 0, reg_a |-> 0, reg_f |-> 0,
     reg_b |-> 0, reg_c |-> 0, reg_d |-> 0, reg_e |-> 0, reg_h |-> 0,
     reg_l |-> 0, reg_w |-> 0, reg_z |-> 0]

read_reg(ra, register) ==
    CASE register = "PC" -> Integer16(ra.program_counter)
      [] register = "SP" -> Integer16(ra.stack_pointer)
      [] register = "B" -> Integer8(ra.reg_b)
      [] register = "C" -> Integer8(ra.reg_c)
      [] register = "D" -> Integer8(ra.reg_d)
      [] register = "E" -> Integer8(ra.reg_e)
      [] register = "H" -> Integer8(ra.reg_h)
      [] register = "L" -> Integer8(ra.reg_l)
      [] register = "W" -> Integer8(ra.reg_w)
      [] register = "Z" -> Integer8(ra.reg_z)
      [] register = "BC" -> Integer8Pair(ra.reg_b, ra.reg_c)
      [] register = "DE" -> Integer8Pair(ra.reg_d, ra.reg_e)
      [] register = "HL" -> Integer8Pair(ra.reg_h, ra.reg_l)
      [] register = "WZ" -> Integer8Pair(ra.reg_w, ra.reg_z)
      [] register = "PSW" -> Integer8Pair(ra.reg_a, ra.reg_f)

\* the field written by an 8-bit register name
Field8(register) ==
    CASE register = "B" -> "reg_b" [] register = "C" -> "reg_c"
      [] register = "D" -> "reg_d" [] register = "E" -> "reg_e"
      [] register = "H" -> "reg_h" [] register = "L" -> "reg_l"
      [] register = "W" -> "reg_w" [] register = "Z" -> "reg_z"

\* the two fields written by a pair name
FieldsPair(register) ==
    CASE register = "BC" -> <<"reg_b", "reg_c">>
      [] register = "DE" -> <<"reg_d", "reg_e">>
      [] register = "HL" -> <<"reg_h", "reg_l">>
      [] register = "WZ" -> <<"reg_w", "reg_z">>
      [] register = "PSW" -> <<"reg_a", "reg_f">>

\* a variant of write_reg that stores the two bytes of a pair the other way round
write_reg_swapped(ra, register, value) ==
    IF register = "PC"
    THEN [st |-> "ok", ra |-> [ra EXCEPT !.program_counter = ToU16(value)]]
    ELSE IF register = "SP"
    THEN [st |-> "ok", ra |-> [ra EXCEPT !.stack_pointer = ToU16(value)]]
    ELSE IF register \in Registers8
    THEN LET b == TryToU8(value)
         IN  IF b.st = "ok"
             THEN [st |-> "ok", ra |-> [ra EXCEPT ![Field8(register)] = b.v]]
             ELSE [st |-> "err", ra |-> ra]
    ELSE LET hl == separate_values(ToU16(value))
             f == FieldsPair(register)
         IN  [st |-> "ok", ra |-> [ra EXCEPT ![f[1]] = hl[2], ![f[2]] = hl[1]]]

\* RegisterArray::write_reg: returns [st, ra]
write_reg(ra, register, value) ==
    IF register = "PC"
    THEN [st |-> "ok", ra |-> [ra EXCEPT !.program_counter = ToU16(value)]]
    ELSE IF register = "SP"
    THEN [st |-> "ok", ra |-> [ra EXCEPT !.stack_pointer = ToU16(value)]]
    ELSE IF register \in Registers8
    THEN LET b == TryToU8(value)
         IN  IF b.st = "ok"
             THEN [st |-> "ok", ra |-> [ra EXCEPT ![Field8(register)] = b.v]]
             ELSE [st |-> "err", ra |-> ra]
    ELSE LET hl == separate_values(ToU16(value))
             f == FieldsPair(register)
         IN  [st |-> "ok", ra |-> [ra EXCEPT ![f[1]] = hl[1], ![f[2]] = hl[2]]]

----------------------------------------------------------------------------
(* memory.rs *)

\* The 64 KiB array, zero-initialised.  Only the non-zero bytes are stored:
\* an address outside the domain holds 0, and a byte written as 0 is removed,
\* so two memories are equal exactly when their maps are.
MemoryNew == <<>>

MemGet(data, addr) == IF addr \in DOMAIN data THEN data[addr] ELSE 0

MemSet(data, addr, byte) ==
    IF byte = 0
    THEN [a \in DOMAIN data \ {addr} |-> data[a]]
    ELSE [a \in DOMAIN data \cup {addr} |-> IF a = addr THEN byte ELSE data[a]]

MemSizeBytes(size) == IF size = "Integer8" THEN 1 ELSE 2

\* a variant of Memory::read without the check of the top address
MemoryReadUnchecked(data, addr, size) ==
    LET a == ToU16(addr)
    IN  IF size = "Integer8"
        THEN [st |-> "ok", v |-> Integer8(MemGet(data, a))]
        ELSE [st |-> "ok",
              v |-> Integer16(Shl(MemGet(data, (a + 1) % 65536), 8, 16) + MemGet(data, a))]

\* Memory::read: returns [st, v]
MemoryRead(data, addr, size) ==
    LET a == ToU16(addr)
    IN  IF size = "Integer8"
        THEN [st |-> "ok", v |-> Integer8(MemGet(data, a))]
        ELSE IF a = 65535
        THEN [st |-> "err"]
        ELSE LET lower == MemGet(data, a)
                 higher == MemGet(data, a + 1)
             IN  [st |-> "ok", v |-> Integer16(Shl(higher, 8, 16) + lower)]

\* a variant of Memory::write that stores a 16-bit value high byte first
MemoryWriteBigEndian(data, addr, value) ==
    LET a == ToU16(addr)
    IN  IF value.t \in {"Integer16", "Integer8Pair"}
        THEN IF a = 65535
             THEN [st |-> "err", data |-> data]
             ELSE LET v == ToU16(value)
                  IN  [st |-> "ok",
                       data |-> MemSet(MemSet(data, a, Shr(v, 8) % 256), a + 1, v % 256)]
        ELSE [st |-> "ok", data |-> MemSet(data, a, value.v)]

\* Memory::write: returns [st, data]
MemoryWrite(data, addr, value) ==
    LET a == ToU16(addr)
    IN  IF value.t \in {"Integer16", "Integer8Pair"}
        THEN IF a = 65535
             THEN [st |-> "err", data |-> data]
             ELSE LET v == ToU16(value)
                      lower == v % 256
                      higher == Shr(v, 8) % 256
                  IN  [st |-> "ok",
                       data |-> MemSet(MemSet(data, a, lower), a + 1, higher)]
        ELSE [st |-> "ok", data |-> MemSet(data, a, value.v)]

----------------------------------------------------------------------------
(* alu.rs *)

AluFlagsNew ==
    [zero |-> FALSE, sign |-> FALSE, parity |-> FALSE, carry |-> FALSE,
     aux_carry |-> FALSE]

from_bools(zero, sign, parity, carry, aux_carry) ==
    [zero |-> zero, sign |-> sign, parity |-> parity, carry |-> carry,
     aux_carry |-> aux_carry]

AllFlags == [zero : BOOLEAN, sign : BOOLEAN, parity : BOOLEAN, carry : BOOLEAN,
             aux_carry : BOOLEAN]

evaluate_condition(flags, condition) ==
    CASE condition = "NotZero" -> ~flags.zero
      [] condition = "Zero" -> flags.zero
      [] condition = "NoCarry" -> ~flags.carry
      [] condition = "Carry" -> flags.carry
      [] condition = "ParityOdd" -> ~flags.parity
      [] condition = "ParityEven" -> flags.parity
      [] condition = "Plus" -> ~flags.sign
      [] condition = "Minus" -> flags.sign

AluNew == [accumulator |-> Integer8(0), flags |-> AluFlagsNew]

bool_u8(b) == IF b THEN 1 ELSE 0

\* a variant of Alu::add that takes the auxiliary carry from bit 3 of the sum
add_no_half_carry(flags, x, y0, use_carry) ==
    LET y == IF use_carry THEN wrapping_add(y0, bool_u8(flags.carry), 8) ELSE y0
        result == wrapping_add(x, y, 8)
    IN  [f |-> [zero |-> result = 0,
                sign |-> BitAnd(result, 128) # 0,
                parity |-> count_ones(result) % 2 = 0,
                carry |-> x + y > 255,
                aux_carry |-> BitAnd((x % 16) + (y % 16), 8) > 0],
         r |-> result]

\* Alu::add: returns the new flags f and the result r
add(flags, x, y0, use_carry) ==
    LET y == IF use_carry THEN wrapping_add(y0, bool_u8(flags.carry), 8) ELSE y0
        result == wrapping_add(x, y, 8)
        x_lower == BitAnd(x, 15)
        y_lower == BitAnd(y, 15)
        lower_sum == x_lower + y_lower
    IN  [f |-> [zero |-> result = 0,
                sign |-> BitAnd(result, 128) # 0,
                parity |-> count_ones(result) % 2 = 0,
                carry |-> x + y > 255,
                aux_carry |-> BitAnd(lower_sum, 16) > 0],
         r |-> result]

\* a variant of Alu::sub whose auxiliary carry is set when the low nibble
\* does not borrow
sub_no_borrow_aux(flags, x, y0, use_carry) ==
    LET y == IF use_carry THEN wrapping_add(y0, bool_u8(flags.carry), 8) ELSE y0
        result == wrapping_sub(x, y, 8)
    IN  [f |-> [zero |-> result = 0,
                sign |-> BitAnd(result, 128) # 0,
                parity |-> count_ones(result) % 2 = 0,
                carry |-> x < y,
                aux_carry |-> ~(BitAnd(x, 15) < BitAnd(y, 15))],
         r |-> result]

\* Alu::sub
sub(flags, x, y0, use_carry) ==
    LET y == IF use_carry THEN wrapping_add(y0, bool_u8(flags.carry), 8) ELSE y0
        result == wrapping_sub(x, y, 8)
        x_lower == BitAnd(x, 15)
        y_lower == BitAnd(y, 15)
    IN  [f |-> [zero |-> result = 0,
                sign |-> BitAnd(result, 128) # 0,
                parity |-> count_ones(result) % 2 = 0,
                carry |-> x < y,
                aux_carry |-> x_lower < y_lower],
         r |-> result]

\* a variant of Alu::inc_dec that does not write the saved carry back
inc_dec_carry_through(flags, x, increment) ==
    IF increment THEN add(flags, x, 1, FALSE) ELSE sub(flags, x, 1, FALSE)

\* Alu::inc_dec
inc_dec(flags, x, increment) ==
    LET carry_flag_copy == flags.carry
        o == IF increment THEN add(flags, x, 1, FALSE) ELSE sub(flags, x, 1, FALSE)
    IN  [f |-> [o.f EXCEPT !.carry = carry_flag_copy], r |-> o.r]

\* Alu::inc_dec16
inc_dec16(flags, x, increment) ==
    [f |-> flags,
     r |-> IF increment THEN wrapping_add(x, 1, 16) ELSE wrapping_sub(x, 1, 16)]

\* a variant of Alu::decimal_adjust that adjusts the low digit only
decimal_adjust_low_only(flags, x0) ==
    IF BitAnd(x0, 15) > 9 \/ flags.aux_carry
    THEN [f |-> [zero |-> wrapping_add(x0, 6, 8) = 0,
                 sign |-> BitAnd(wrapping_add(x0, 6, 8), 128) # 0,
                 parity |-> count_ones(wrapping_add(x0, 6, 8)) % 2 = 0,
                 carry |-> x0 + 6 > 255,
                 aux_carry |-> BitAnd(x0, 15) + 6 > 15],
          r |-> wrapping_add(x0, 6, 8)]
    ELSE [f |-> flags, r |-> x0]

\* Alu::decimal_adjust
decimal_adjust(flags, x0) ==
    LET lower_bits == BitAnd(x0, 15)
        s1 == IF lower_bits > 9 \/ flags.aux_carry
              THEN add(flags, x0, 6, FALSE) ELSE [f |-> flags, r |-> x0]
        higher_bits == Shr(BitAnd(s1.r, 240), 4)
        s2 == IF higher_bits > 9 \/ s1.f.carry
              THEN add(s1.f, s1.r, 96, FALSE) ELSE s1
    IN  s2

LogicFlags(result) ==
    [zero |-> result = 0,
     sign |-> BitAnd(result, 128) # 0,
     parity |-> count_ones(result) % 2 = 0,
     carry |-> FALSE,
     aux_carry |-> FALSE]

\* Alu::bitwise_and / bitwise_xor / bitwise_or
bitwise_and(flags, x, y) == [f |-> LogicFlags(BitAnd(x, y)), r |-> BitAnd(x, y)]
bitwise_xor(flags, x, y) == [f |-> LogicFlags(BitXor(x, y)), r |-> BitXor(x, y)]
bitwise_or(flags, x, y) == [f |-> LogicFlags(BitOr(x, y)), r |-> BitOr(x, y)]

\* u8::rotate_left(1) / u8::rotate_right(1)
rotate_left1(x) == Shl(x, 1, 8) + Shr(x, 7)
rotate_right1(x) == Shr(x, 1) + Shl(x % 2, 7, 8)

\* a variant of Alu::rotate whose through-carry form keeps the rotated-in bit
rotate_keep_bit(flags, x, right, through_carry) ==
    [f |-> [flags EXCEPT !.carry = IF right THEN BitAnd(x, 1) # 0
                                    ELSE BitAnd(x, 128) # 0],
     r |-> IF right THEN rotate_right1(x) ELSE rotate_left1(x)]

\* Alu::rotate
rotate(flags, x, right, through_carry) ==
    LET carry_copy == flags.carry
        rot == IF right THEN rotate_right1(x) ELSE rotate_left1(x)
        new_carry == IF right THEN BitAnd(x, 1) # 0 ELSE BitAnd(x, 128) # 0
        result == IF through_carry
                  THEN IF right
                       THEN BitOr(BitAnd(rot, 127), Shl(bool_u8(carry_copy), 7, 8))
                       ELSE BitOr(BitAnd(rot, 254), bool_u8(carry_copy))
                  ELSE rot
    IN  [f |-> [flags EXCEPT !.carry = new_carry], r |-> result]

\* Alu::complement
complement(flags, x) == [f |-> flags, r |-> 255 - x]

\* AluOperation values
AluOp2(op, a, b) == [op |-> op, a |-> a, b |-> b]
AluOp1(op, a) == [op |-> op, a |-> a]
AluOp0(op) == [op |-> op]

BinaryOps == {"Add", "AddCarry", "Sub", "SubBorrow", "BitwiseAnd", "BitwiseXor",
              "BitwiseOr", "Comparison"}
UnaryOps == {"Increment", "Decrement", "DecimalAdjust", "RotateLeft", "RotateRight",
             "RotateLeftThroughCarry", "RotateRightThroughCarry", "Complement"}

\* the 8-bit operation an AluOperation names, applied to x (and y)
AluApply8(flags, op, x, y) ==
    CASE op = "Add" -> add(flags, x, y, FALSE)
      [] op = "AddCarry" -> add(flags, x, y, TRUE)
      [] op = "Sub" -> sub(flags, x, y, FALSE)
      [] op = "SubBorrow" -> sub(flags, x, y, TRUE)
      [] op = "Comparison" -> sub(flags, x, y, FALSE)
      [] op = "Increment" -> inc_dec(flags, x, TRUE)
      [] op = "Decrement" -> inc_dec(flags, x, FALSE)
      [] op = "DecimalAdjust" -> decimal_adjust(flags, x)
      [] op = "BitwiseAnd" -> bitwise_and(flags, x, y)
      [] op = "BitwiseXor" -> bitwise_xor(flags, x, y)
      [] op = "BitwiseOr" -> bitwise_or(flags, x, y)
      [] op = "RotateLeft" -> rotate(flags, x, FALSE, FALSE)
      [] op = "RotateRight" -> rotate(flags, x, TRUE, FALSE)
      [] op = "RotateLeftThroughCarry" -> rotate(flags, x, FALSE, TRUE)
      [] op = "RotateRightThroughCarry" -> rotate(flags, x, TRUE, TRUE)
      [] op = "Complement" -> complement(flags, x)

\* Alu::evaluate: returns [st, alu, some, v]; some = FALSE is Ok(None)
AluEvaluate(alu, operation) ==
    LET op == operation.op
        AluErr == [st |-> "err", alu |-> alu, some |-> FALSE]
        AluPanic == [st |-> "panic", alu |-> alu, some |-> FALSE]
        Done(o, rv) == [st |-> "ok",
                        alu |-> [accumulator |-> rv, flags |-> o.f],
                        some |-> TRUE, v |-> rv]
        Binary(o) == IF op = "Comparison"
                     THEN [st |-> "ok", alu |-> [alu EXCEPT !.flags = o.f],
                           some |-> FALSE]
                     ELSE Done(o, Integer8(o.r))
        Unary(o) == Done(o, Integer8(o.r))
        Unary16(o) == Done(o, Integer16(o.r))
    IN  IF op \in BinaryOps
        THEN IF operation.a.t # "Integer8" \/ operation.b.t # "Integer8"
             THEN AluErr
             ELSE Binary(AluApply8(alu.flags, op, operation.a.v, operation.b.v))
        ELSE IF op \in UnaryOps
        THEN IF operation.a.t = "Integer8"
             THEN Unary(AluApply8(alu.flags, op, operation.a.v, 0))
             ELSE IF op \in {"Increment", "Decrement"}
             THEN Unary16(inc_dec16(alu.flags, ToU16(operation.a), op = "Increment"))
             ELSE AluPanic   \* x.unwrap() on None
        ELSE IF op = "SetCarry"
        THEN [st |-> "ok", alu |-> [alu EXCEPT !.flags.carry = TRUE], some |-> FALSE]
        ELSE [st |-> "ok", alu |-> [alu EXCEPT !.flags.carry = ~alu.flags.carry],
              some |-> FALSE]

\* Alu::write_accumulator: returns [st, alu]
write_accumulator(alu, value) ==
    IF RvBytes(value) # 1
    THEN [st |-> "err", alu |-> alu]
    ELSE [st |-> "ok", alu |-> [alu EXCEPT !.accumulator = value]]

----------------------------------------------------------------------------
(* instruction.rs *)

MsAddress(addr) == [ms |-> "Address", addr |-> addr]
MsRegister(register) == [ms |-> "Register", r |-> register]
MsProgramCounter == [ms |-> "ProgramCounter"]

SrcMemory(memory_source, size) == [s |-> "Memory", m |-> memory_source, size |-> size]
SrcRegister(register) == [s |-> "Register", r |-> register]
SrcAccumulator == [s |-> "Accumulator"]
SrcSum(source1, source2) == [s |-> "Sum", x |-> source1, y |-> source2]
SrcValue(value) == [s |-> "Value", v |-> value]

\* Register::from_reg_id
from_reg_id(id) ==
    CASE id = 0 -> [st |-> "ok", v |-> "B"]
      [] id = 1 -> [st |-> "ok", v |-> "C"]
      [] id = 2 -> [st |-> "ok", v |-> "D"]
      [] id = 3 -> [st |-> "ok", v |-> "E"]
      [] id = 4 -> [st |-> "ok", v |-> "H"]
      [] id = 5 -> [st |-> "ok", v |-> "L"]
      [] OTHER -> [st |-> "err"]

\* Register::from_rp_id
from_rp_id(id) ==
    CASE id = 0 -> [st |-> "ok", v |-> "BC"]
      [] id = 1 -> [st |-> "ok", v |-> "DE"]
      [] id = 2 -> [st |-> "ok", v |-> "HL"]
      [] id = 3 -> [st |-> "ok", v |-> "SP"]
      [] OTHER -> [st |-> "err"]

\* InstructionSource::from_id
SourceFromId(id) ==
    IF id \in 0..5
    THEN LET r == from_reg_id(id)
         IN  IF r.st = "ok" THEN [st |-> "ok", v |-> SrcRegister(r.v)] ELSE [st |-> "err"]
    ELSE IF id = 6 THEN [st |-> "ok", v |-> SrcMemory(MsRegister("HL"), "Integer8")]
    ELSE IF id = 7 THEN [st |-> "ok", v |-> SrcAccumulator]
    ELSE [st |-> "err"]

\* InstructionSource::n_bytes
SourceBytes(source) ==
    IF source.s = "Memory" THEN [st |-> "ok", v |-> MemSizeBytes(source.size)]
    ELSE IF source.s = "Register" THEN [st |-> "ok", v |-> RegBytes(source.r)]
    ELSE IF source.s = "Accumulator" THEN [st |-> "ok", v |-> 1]
    ELSE [st |-> "err"]

\* InstructionCondition::from_id
ConditionFromId(id) ==
    CASE id = 0 -> [st |-> "ok", v |-> "NotZero"]
      [] id = 1 -> [st |-> "ok", v |-> "Zero"]
      [] id = 2 -> [st |-> "ok", v |-> "NoCarry"]
      [] id = 3 -> [st |-> "ok", v |-> "Carry"]
      [] id = 4 -> [st |-> "ok", v |-> "ParityOdd"]
      [] id = 5 -> [st |-> "ok", v |-> "ParityEven"]
      [] id = 6 -> [st |-> "ok", v |-> "Plus"]
      [] id = 7 -> [st |-> "ok", v |-> "Minus"]
      [] OTHER -> [st |-> "err"]

Ins0(i) == [i |-> i]
Ins1(i, a) == [i |-> i, a |-> a]
Ins2(i, a, b) == [i |-> i, a |-> a, b |-> b]
DecOk(instr) == [st |-> "ok", instr |-> instr]
DecErr == [st |-> "err"]

\* Instruction::alu_instr_from_id
alu_instr_from_id(alu, src_a, src_b) ==
    CASE alu = 0 -> DecOk(Ins2("Add", src_a, src_b))
      [] alu = 1 -> DecOk(Ins2("AddWithCarry", src_a, src_b))
      [] alu = 2 -> DecOk(Ins2("Subtract", src_a, src_b))
      [] alu = 3 -> DecOk(Ins2("SubtractWithBorrow", src_a, src_b))
      [] alu = 4 -> DecOk(Ins2("BitwiseAnd", src_a, src_b))
      [] alu = 5 -> DecOk(Ins2("BitwiseXor", src_a, src_b))
      [] alu = 6 -> DecOk(Ins2("BitwiseOr", src_a, src_b))
      [] alu = 7 -> DecOk(Ins2("Comparison", src_a, src_b))
      [] OTHER -> DecErr

\* a variant of the decoder's match that ignores the last bit of the pattern
MatchesLoose(bits, pat) == \A k \in 1..7 : pat[k] = 2 \/ pat[k] = bits[k]

\* one arm of the decoder's match: pat[k] = 2 is the wildcard _
Matches(bits, pat) == \A k \in 1..8 : pat[k] = 2 \/ pat[k] = bits[k]

\* the decoder's STAX / LDAX arms
DecodeStax(rp) ==
    LET reg_pair == from_rp_id(rp)
    IN  IF reg_pair.st # "ok" THEN DecErr
        ELSE IF reg_pair.v # "BC" /\ reg_pair.v # "DE" THEN DecErr
        ELSE DecOk(Ins2("Move", SrcMemory(MsRegister(reg_pair.v), "Integer16"),
                        SrcRegister(reg_pair.v)))

DecodeLdax(rp) ==
    LET reg_pair == from_rp_id(rp)
    IN  IF reg_pair.st # "ok" THEN DecErr
        ELSE IF reg_pair.v # "BC" /\ reg_pair.v # "DE" THEN DecErr
        ELSE DecOk(Ins2("Move", SrcAccumulator,
                        SrcMemory(MsRegister(reg_pair.v), "Integer8")))

\* the decoder's POP / PUSH arms: SP names the PSW
DecodeStack(i, rp) ==
    LET reg_pair == from_rp_id(rp)
    IN  IF reg_pair.st # "ok" THEN DecErr
        ELSE DecOk(Ins1(i, SrcRegister(IF reg_pair.v = "SP" THEN "PSW" ELSE reg_pair.v)))

\* arms that build one operand from a 3-bit id, or a pair from a 2-bit id
With1(i, r) == IF r.st = "ok" THEN DecOk(Ins1(i, r.v)) ELSE DecErr
WithReg1(i, r) == IF r.st = "ok" THEN DecOk(Ins1(i, SrcRegister(r.v))) ELSE DecErr

\* Instruction::decode, the arms in the order of the source.  The argument is
\* a RegisterValue.
Decode(instruction_rv) ==
    LET b == TryToU8(instruction_rv)
        instruction == b.v
        bits == get_bits(instruction)
        rp == Shr(BitAnd(instruction, 48), 4)
        ddd == Shr(BitAnd(instruction, 56), 3)
        sss == BitAnd(instruction, 7)
        M(pat) == Matches(bits, pat)
        pc8 == SrcMemory(MsProgramCounter, "Integer8")
        pc16 == SrcMemory(MsProgramCounter, "Integer16")
    IN  IF b.st # "ok" THEN DecErr
        ELSE IF M(<<0,0,0,0,0,0,0,0>>) THEN DecOk(Ins0("Nop"))
        ELSE IF M(<<0,0,2,2,0,0,0,1>>) THEN
            LET r == from_rp_id(rp)
            IN  IF r.st = "ok" THEN DecOk(Ins2("Move", SrcRegister(r.v), pc16)) ELSE DecErr
        ELSE IF M(<<0,0,1,0,0,0,1,0>>) THEN DecOk(Ins1("Store", SrcRegister("HL")))
        ELSE IF M(<<0,0,1,1,0,0,1,0>>) THEN DecOk(Ins1("Store", SrcAccumulator))
        ELSE IF M(<<0,0,2,2,0,0,1,0>>) THEN DecodeStax(rp)
        ELSE IF M(<<0,0,2,2,0,0,1,1>>) THEN WithReg1("Increment", from_rp_id(rp))
        ELSE IF M(<<0,0,2,2,2,1,0,0>>) THEN With1("Increment", SourceFromId(ddd))
        ELSE IF M(<<0,0,2,2,2,1,0,1>>) THEN With1("Decrement", SourceFromId(ddd))
        ELSE IF M(<<0,0,2,2,2,1,1,0>>) THEN
            LET d == SourceFromId(ddd)
            IN  IF d.st = "ok" THEN DecOk(Ins2("Move", d.v, pc8)) ELSE DecErr
        ELSE IF M(<<0,0,2,2,1,0,0,1>>) THEN
            LET r == from_rp_id(rp)
            IN  IF r.st = "ok"
                THEN DecOk(Ins2("Move", SrcRegister("HL"),
                                SrcSum(SrcRegister("HL"), SrcRegister(r.v))))
                ELSE DecErr
        ELSE IF M(<<0,0,1,0,1,0,1,0>>) THEN DecOk(Ins1("Load", SrcRegister("HL")))
        ELSE IF M(<<0,0,1,1,1,0,1,0>>) THEN DecOk(Ins1("Load", SrcAccumulator))
        ELSE IF M(<<0,0,2,2,1,0,1,0>>) THEN DecodeLdax(rp)
        ELSE IF M(<<0,0,2,2,1,0,1,1>>) THEN WithReg1("Decrement", from_rp_id(rp))
        ELSE IF M(<<0,0,0,0,0,1,1,1>>) THEN DecOk(Ins1("RotateLeftThroughCarry", SrcAccumulator))
        ELSE IF M(<<0,0,0,0,1,1,1,1>>) THEN DecOk(Ins1("RotateRightThroughCarry", SrcAccumulator))
        ELSE IF M(<<0,0,0,1,0,1,1,1>>) THEN DecOk(Ins1("RotateLeft", SrcAccumulator))
        ELSE IF M(<<0,0,0,1,1,1,1,1>>) THEN DecOk(Ins1("RotateRight", SrcAccumulator))
        ELSE IF M(<<0,0,1,0,0,1,1,1>>) THEN DecOk(Ins1("DecimalAdjust", SrcAccumulator))
        ELSE IF M(<<0,0,1,0,1,1,1,1>>) THEN DecOk(Ins1("Complement", SrcAccumulator))
        ELSE IF M(<<0,0,1,1,0,1,1,1>>) THEN DecOk(Ins0("SetCarry"))
        ELSE IF M(<<0,0,1,1,1,1,1,1>>) THEN DecOk(Ins0("ComplementCarry"))
        ELSE IF M(<<0,1,1,1,0,1,1,0>>) THEN DecOk(Ins0("Halt"))
        ELSE IF M(<<0,1,2,2,2,2,2,2>>) THEN
            LET d == SourceFromId(ddd)
                s == SourceFromId(sss)
            IN  IF d.st = "ok" /\ s.st = "ok" THEN DecOk(Ins2("Move", d.v, s.v)) ELSE DecErr
        ELSE IF M(<<1,0,2,2,2,2,2,2>>) THEN
            LET s == SourceFromId(sss)
            IN  IF s.st = "ok" THEN alu_instr_from_id(ddd, SrcAccumulator, s.v) ELSE DecErr
        ELSE IF M(<<1,1,2,2,2,0,0,0>>) THEN With1("ReturnConditional", ConditionFromId(ddd))
        ELSE IF M(<<1,1,2,2,0,0,0,1>>) THEN DecodeStack("StackPop", rp)
        ELSE IF M(<<1,1,2,2,2,0,1,0>>) THEN With1("JumpConditional", ConditionFromId(ddd))
        ELSE IF M(<<1,1,0,0,0,0,1,1>>) THEN DecOk(Ins0("Jump"))
        ELSE IF M(<<1,1,2,2,2,1,0,0>>) THEN With1("CallConditional", ConditionFromId(ddd))
        ELSE IF M(<<1,1,2,2,0,1,0,1>>) THEN DecodeStack("StackPush", rp)
        ELSE IF M(<<1,1,2,2,2,1,1,0>>) THEN alu_instr_from_id(ddd, SrcAccumulator, pc8)
        ELSE IF M(<<1,1,2,2,2,1,1,1>>) THEN DecOk(Ins1("Reset", SrcValue(Integer16(ddd))))
        ELSE IF M(<<1,1,0,0,1,0,0,1>>) THEN DecOk(Ins0("Return"))
        ELSE IF M(<<1,1,0,0,1,1,0,1>>) THEN DecOk(Ins0("Call"))
        ELSE IF M(<<1,1,0,1,0,0,1,1>>) THEN DecOk(Ins0("IoOut"))
        ELSE IF M(<<1,1,0,1,1,0,1,1>>) THEN DecOk(Ins0("IoIn"))
        ELSE IF M(<<1,1,1,0,0,0,1,1>>) THEN
            DecOk(Ins2("Exchange", SrcRegister("HL"),
                       SrcMemory(MsRegister("SP"), "Integer16")))
        ELSE IF M(<<1,1,1,0,1,0,0,1>>) THEN
            DecOk(Ins2("Exchange", SrcRegister("PC"), SrcRegister("HL")))
        ELSE IF M(<<1,1,1,0,1,0,1,1>>) THEN
            DecOk(Ins2("Exchange", SrcRegister("HL"), SrcRegister("DE")))
        ELSE IF M(<<1,1,1,1,0,0,1,1>>) THEN DecOk(Ins0("DisableInterrupts"))
        ELSE IF M(<<1,1,1,1,1,0,0,1>>) THEN
            DecOk(Ins2("Move", SrcRegister("SP"), SrcRegister("HL")))
        ELSE IF M(<<1,1,1,1,1,0,1,1>>) THEN DecOk(Ins0("EnableInterrupts"))
        ELSE DecErr

----------------------------------------------------------------------------
(* cpu.rs *)

CPU_INSTRUCTION_CLOCK_CYCLES == <<
      4, 10, 7, 5, 5, 5, 7, 4, 4, 10, 7, 5, 5, 5, 7, 4,
      4, 10, 7, 5, 5, 5, 7, 4, 4, 10, 7, 5, 5, 5, 7, 4,
      4, 10, 16, 5, 5, 5, 7, 4, 4, 10, 16, 5, 5, 5, 7, 4,
      4, 10, 13, 5, 10, 10, 10, 4, 4, 10, 13, 5, 5, 5, 7, 4,
      5, 5, 5, 5, 5, 5, 7, 5, 5, 5, 5, 5, 5, 5, 7, 5,
      5, 5, 5, 5, 5, 5, 7, 5, 5, 5, 5, 5, 5, 5, 7, 5,
      5, 5, 5, 5, 5, 5, 7, 5, 5, 5, 5, 5, 5, 5, 7, 5,
      7, 7, 7, 7, 7, 7, 7, 7, 5, 5, 5, 5, 5, 5, 7, 5,
      4, 4, 4, 4, 4, 4, 7, 4, 4, 4, 4, 4, 4, 4, 7, 4,
      4, 4, 4, 4, 4, 4, 7, 4, 4, 4, 4, 4, 4, 4, 7, 4,
      4, 4, 4, 4, 4, 4, 7, 4, 4, 4, 4, 4, 4, 4, 7, 4,
      4, 4, 4, 4, 4, 4, 7, 4, 4, 4, 4, 4, 4, 4, 7, 4,
      5, 10, 10, 10, 11, 11, 7, 11, 5, 10, 10, 10, 11, 17, 7, 11,
      5, 10, 10, 10, 11, 11, 7, 11, 5, 10, 10, 10, 11, 17, 7, 11,
      5, 10, 10, 18, 11, 11, 7, 11, 5, 5, 10, 4, 11, 17, 7, 11,
      5, 10, 10, 4, 11, 11, 7, 11, 5, 5, 10, 4, 11, 17, 7, 11 >>

\* the table entry of an opcode (the tuple is indexed from 1)
BaseCycles(opcode) == CPU_INSTRUCTION_CLOCK_CYCLES[opcode + 1]

\* Cpu::new.  ports holds the non-zero port values (see MemGet); port_handler_fn
\* is "None" or the name of the installed callback; subroutines is the set of
\* addresses with a handler (the only handler of the repository is the BDOS
\* stub); port_handler_calls is what the callback has been invoked with.
CpuNew ==
    [running |-> TRUE,
     interrupts_enabled |-> TRUE,
     reg_array |-> RegisterArrayNew,
     alu |-> AluNew,
     memory |-> MemoryNew,
     ports |-> <<>>,
     port_handler_fn |-> "None",
     subroutines |-> {},
     total_cycles |-> 0,
     port_handler_calls |-> <<>>]

\* results of the engine's fallible methods
Ok0(c) == [st |-> "ok", c |-> c]
OkV(c, v) == [st |-> "ok", c |-> c, v |-> v]
Fail(st, c) == [st |-> st, c |-> c]

\* Cpu::read_next
read_next(c, size) ==
    LET pc_val == read_reg(c.reg_array, "PC")
        new_pc_val == wrapping_add(ToU16(pc_val), MemSizeBytes(size), 16)
        Advance(value, w) ==
            IF value.st # "ok" THEN Fail(value.st, c)
            ELSE IF w.st # "ok" THEN Fail(w.st, c)
            ELSE OkV([c EXCEPT !.reg_array = w.ra], value.v)
    IN  Advance(MemoryRead(c.memory, pc_val, size),
                write_reg(c.reg_array, "PC", Integer16(new_pc_val)))

\* Cpu::decode_next_instruction: returns [st, c, opcode, instr]
decode_next_instruction(c) ==
    LET Decoded(n, opcode, d) ==
            IF opcode.st # "ok" THEN Fail("err", n.c)
            ELSE IF d.st # "ok" THEN Fail("err", n.c)
            ELSE [st |-> "ok", c |-> n.c, opcode |-> opcode.v, instr |-> d.instr]
        Fetched(n) ==
            IF n.st # "ok" THEN Fail(n.st, n.c)
            ELSE Decoded(n, TryToU8(n.v), Decode(n.v))
    IN  Fetched(read_next(c, "Integer8"))

\* Cpu::evaluate_source
RECURSIVE evaluate_source(_, _, _)
evaluate_source(c, source, checks) ==
    IF source.s = "Memory"
    THEN LET Loaded(r) == IF r.st = "ok" THEN OkV(c, r.v) ELSE Fail(r.st, c)
         IN  IF source.m.ms = "Address"
             THEN Loaded(MemoryRead(c.memory, source.m.addr, source.size))
             ELSE IF source.m.ms = "Register"
             THEN Loaded(MemoryRead(c.memory, read_reg(c.reg_array, source.m.r),
                                    source.size))
             ELSE read_next(c, source.size)
    ELSE IF source.s = "Register" THEN OkV(c, read_reg(c.reg_array, source.r))
    ELSE IF source.s = "Accumulator" THEN OkV(c, c.alu.accumulator)
    ELSE IF source.s = "Sum"
    THEN LET Summed(val_src2, sum) ==
                 IF sum.st # "ok" THEN Fail(sum.st, val_src2.c)
                 ELSE OkV(val_src2.c, sum.v)
             Second(val_src1, val_src2) ==
                 IF val_src2.st # "ok" THEN Fail(val_src2.st, val_src2.c)
                 ELSE Summed(val_src2, try_add(val_src1.v, val_src2.v, checks))
             First(val_src1) ==
                 IF val_src1.st # "ok" THEN Fail(val_src1.st, val_src1.c)
                 ELSE Second(val_src1, evaluate_source(val_src1.c, source.y, checks))
         IN  First(evaluate_source(c, source.x, checks))
    ELSE OkV(c, source.v)

\* AluFlags::from_f: the flags of an F byte laid out S Z 0 AC 0 P 1 C
from_f(f) ==
    IF f.t # "Integer8" THEN [st |-> "err"]
    ELSE [st |-> "ok",
          v |-> [sign |-> Bit(f.v, 7) = 1,
                 zero |-> Bit(f.v, 6) = 1,
                 aux_carry |-> Bit(f.v, 4) = 1,
                 parity |-> Bit(f.v, 2) = 1,
                 carry |-> Bit(f.v, 0) = 1]]

\* Alu::write_flags
write_flags(alu, flags) == [alu EXCEPT !.flags = flags]

\* Cpu::write_to_source, the register arm: the PSW also updates A and the flags
WriteRegisterSource(c, register, value) ==
    LET v16 == ToU16(value)
        a == Integer8(Shr(v16, 8) % 256)
        f == Integer8(BitAnd(v16, 255) % 256)
        StatusWord(c1, wa, fl) ==
            IF wa.st # "ok" THEN Fail(wa.st, c1)
            ELSE IF fl.st # "ok" THEN Fail(fl.st, [c1 EXCEPT !.alu = wa.alu])
            ELSE Ok0([c1 EXCEPT !.alu = write_flags(wa.alu, fl.v)])
        Written(w, c1) ==
            IF w.st # "ok" THEN Fail(w.st, c)
            ELSE IF register # "PSW" THEN Ok0(c1)
            ELSE StatusWord(c1, write_accumulator(c1.alu, a), from_f(f))
        Write(w) == Written(w, [c EXCEPT !.reg_array = w.ra])
    IN  Write(write_reg(c.reg_array, register, value))

\* Cpu::write_to_source
write_to_source(c, source, value) ==
    IF source.s = "Memory"
    THEN IF RvBytes(value) # MemSizeBytes(source.size) THEN Fail("err", c)
         ELSE IF source.m.ms = "ProgramCounter" THEN Fail("err", c)
         ELSE LET addr == IF source.m.ms = "Address" THEN source.m.addr
                          ELSE read_reg(c.reg_array, source.m.r)
                  Stored(w) == IF w.st # "ok" THEN Fail(w.st, c)
                               ELSE Ok0([c EXCEPT !.memory = w.data])
              IN  Stored(MemoryWrite(c.memory, addr, value))
    ELSE IF source.s = "Register" THEN WriteRegisterSource(c, source.r, value)
    ELSE IF source.s = "Accumulator"
    THEN LET wa == write_accumulator(c.alu, value)
         IN  IF wa.st # "ok" THEN Fail(wa.st, c) ELSE Ok0([c EXCEPT !.alu = wa.alu])
    ELSE Fail("err", c)

\* the F byte S Z 0 AC 0 P 1 C of the flags (update_status_word, lines 232-245)
FlagsByte(flags) ==
    from_bits(<<bool_u8(flags.sign), bool_u8(flags.zero), 0,
                bool_u8(flags.aux_carry), 0, bool_u8(flags.parity), 1,
                bool_u8(flags.carry)>>)

\* a variant of update_status_word that leaves the PSW registers as they are
update_status_word_stale(c) == Ok0(c)

\* Cpu::update_status_word
update_status_word(c) ==
    LET a == TryToU8(c.alu.accumulator)
        f == FlagsByte(c.alu.flags)
        psw == Integer16(combine_values(a.v, f))
        Written(w) == IF w.st # "ok" THEN Fail(w.st, c)
                      ELSE Ok0([c EXCEPT !.reg_array = w.ra])
    IN  IF a.st # "ok" THEN Fail("err", c)
        ELSE Written(write_reg(c.reg_array, "PSW", psw))

\* Cpu::push_to_stack
push_to_stack(c, value, checks) ==
    LET value_size == RvBytes(value)
        sp_decrement == Integer16(wrapping_neg(value_size, 16))
        Stored(c1, m) == IF m.st # "ok" THEN Fail(m.st, c1)
                         ELSE Ok0([c1 EXCEPT !.memory = m.data])
        Moved(s, w, c1) ==
            IF w.st # "ok" THEN Fail(w.st, c)
            ELSE Stored(c1, MemoryWrite(c1.memory, s.v, value))
        Lowered(s, w) == Moved(s, w, [c EXCEPT !.reg_array = w.ra])
        Sub(s) == IF s.st # "ok" THEN Fail(s.st, c)
                  ELSE Lowered(s, write_reg(c.reg_array, "SP", s.v))
    IN  Sub(try_add(read_reg(c.reg_array, "SP"), sp_decrement, checks))

\* Cpu::pop_from_stack
pop_from_stack(c, size, checks) ==
    LET sp_val == read_reg(c.reg_array, "SP")
        Moved(value, w) == IF w.st # "ok" THEN Fail(w.st, c)
                           ELSE OkV([c EXCEPT !.reg_array = w.ra], value.v)
        Raised(value, s) == IF s.st # "ok" THEN Fail(s.st, c)
                            ELSE Moved(value, write_reg(c.reg_array, "SP", s.v))
        Loaded(value) ==
            IF value.st # "ok" THEN Fail(value.st, c)
            ELSE Raised(value, try_add(sp_val, Integer16(MemSizeBytes(size)), checks))
    IN  Loaded(MemoryRead(c.memory, sp_val, size))

\* the callback main.rs installs with set_port_handler_fn: it is handed every
\* (port, value) and appends the value to the output string when port = 0
CpuOutputStr(c) ==
    LET RECURSIVE Port0(_)
        Port0(s) == IF s = <<>> THEN <<>>
                    ELSE IF Head(s)[1] = 0 THEN <<Head(s)[2]>> \o Port0(Tail(s))
                    ELSE Port0(Tail(s))
    IN  Port0(c.port_handler_calls)

\* a variant of write_to_port that invokes the callback twice
write_to_port_twice(c, port, value) ==
    IF RvBytes(port) # 1 \/ RvBytes(value) # 1 THEN Fail("err", c)
    ELSE LET c1 == [c EXCEPT !.ports = MemSet(c.ports, port.v, value.v)]
         IN  Ok0([c1 EXCEPT !.port_handler_calls =
                      c.port_handler_calls \o <<<<port.v, value.v>>, <<port.v, value.v>>>>])

\* Cpu::write_to_port
write_to_port(c, port, value) ==
    IF RvBytes(port) # 1 \/ RvBytes(value) # 1 THEN Fail("err", c)
    ELSE LET c1 == [c EXCEPT !.ports = MemSet(c.ports, port.v, value.v)]
         IN  IF c.port_handler_fn # "None"
             THEN Ok0([c1 EXCEPT !.port_handler_calls =
                           Append(c.port_handler_calls, <<port.v, value.v>>)])
             ELSE Ok0(c1)

\* Cpu::read_port
read_port(c, port) ==
    IF RvBytes(port) # 1 THEN [st |-> "err"]
    ELSE [st |-> "ok", v |-> Integer8(MemGet(c.ports, port.v))]

\* Cpu::set_port_handler_fn
set_port_handler_fn(c, name) == [c EXCEPT !.port_handler_fn = name]

\* Cpu::add_subroutine_handler
add_subroutine_handler(c, subroutine_addr) ==
    [c EXCEPT !.subroutines = c.subroutines \cup {subroutine_addr}]

\* Cpu::set_pc
set_pc(c, new_pc) ==
    [c EXCEPT !.reg_array = write_reg(c.reg_array, "PC", Integer16(new_pc)).ra]

\* Cpu::load_to_memory: the bytes are written one by one, and the address of
\* byte i is computed as i + start_addr with the plain + when its turn comes
RECURSIVE load_loop(_, _, _, _, _)
load_loop(c, data, i, start_addr, checks) ==
    IF i > Len(data) THEN Ok0(c)
    ELSE LET addr == PlainAdd((i - 1) % 65536, start_addr, 16, checks)
             w == MemoryWrite(c.memory, Integer16(addr.v), Integer8(data[i]))
         IN  IF addr.st # "ok" THEN Fail(addr.st, c)
             ELSE IF w.st # "ok" THEN Fail(w.st, c)
             ELSE load_loop([c EXCEPT !.memory = w.data], data, i + 1, start_addr, checks)

load_to_memory(c, data, start_addr, checks) == load_loop(c, data, 1, start_addr, checks)

----------------------------------------------------------------------------
(* cp_m.rs *)

BDOS_ADDR == 5

\* the string-output loop of the BDOS handler (function 9), from str_pointer
RECURSIVE bdos_string(_, _, _)
bdos_string(c, str_pointer, checks) ==
    LET current_char == MemoryRead(c.memory, str_pointer, "Integer8").v
        w == write_to_port(c, Integer8(0), current_char)
        next == try_add(str_pointer, Integer16(1), checks)
    IN  IF current_char.v = 36 THEN Ok0(c)
        ELSE IF w.st # "ok" THEN Fail("panic", c)
        ELSE IF next.st # "ok" THEN Fail("panic", w.c)
        ELSE bdos_string(w.c, next.v, checks)

\* the handler add_cpm_bdos installs at 0x0005
bdos(c, checks) ==
    LET reg_c == read_reg(c.reg_array, "C")
        de == read_reg(c.reg_array, "DE")
    IN  IF reg_c = Integer8(9)
        THEN IF \A a \in DOMAIN c.memory : c.memory[a] # 36
             THEN \* no '$' anywhere: the loop runs to the top of memory, where the
                  \* pointer increment panics or wraps and the loop never ends
                  Fail(IF checks THEN "panic" ELSE "hang", c)
             ELSE IF checks /\ \A a \in DOMAIN c.memory : c.memory[a] = 36 => a < ToU16(de)
             THEN Fail("panic", c)
             ELSE bdos_string(c, de, checks)
        ELSE IF reg_c = Integer8(2)
        THEN LET w == write_to_port(c, Integer8(0), read_reg(c.reg_array, "E"))
             IN  IF w.st # "ok" THEN Fail("panic", c) ELSE w
        ELSE Ok0(c)

\* add_cpm_bdos
add_cpm_bdos(c) == add_subroutine_handler(c, BDOS_ADDR)

----------------------------------------------------------------------------
(* cpu.rs: Cpu::execute *)

\* MemorySize::from_bytes
from_bytes(n) ==
    IF n = 1 THEN [st |-> "ok", v |-> "Integer8"]
    ELSE IF n = 2 THEN [st |-> "ok", v |-> "Integer16"]
    ELSE [st |-> "err"]

\* the size of an operand: MemorySize::from_bytes(source.n_bytes()?)?
SourceSize(source) ==
    LET n == SourceBytes(source)
    IN  IF n.st # "ok" THEN [st |-> "err"] ELSE from_bytes(n.v)

\* the AluOperation an ALU instruction names
AluOpName(i) ==
    CASE i = "Add" -> "Add"
      [] i = "AddWithCarry" -> "AddCarry"
      [] i = "Subtract" -> "Sub"
      [] i = "SubtractWithBorrow" -> "SubBorrow"
      [] OTHER -> i

AluInstructions ==
    {"RotateLeft", "RotateRight", "RotateLeftThroughCarry", "RotateRightThroughCarry",
     "DecimalAdjust", "Complement", "Add", "AddWithCarry", "Subtract",
     "SubtractWithBorrow", "BitwiseAnd", "BitwiseXor", "BitwiseOr", "Comparison",
     "SetCarry", "ComplementCarry"}

\* AluOperation::from_instruction: the operands are evaluated in order (an
\* immediate operand advances PC); returns [st, c, v]
from_instruction(c, instruction, checks) ==
    IF instruction.i \in {"SetCarry", "ComplementCarry"}
    THEN OkV(c, AluOp0(instruction.i))
    ELSE IF AluOpName(instruction.i) \in UnaryOps
    THEN LET Unary(a) == IF a.st # "ok" THEN Fail(a.st, a.c)
                         ELSE OkV(a.c, AluOp1(AluOpName(instruction.i), a.v))
         IN  Unary(evaluate_source(c, instruction.a, checks))
    ELSE LET Binary(a, b) == IF b.st # "ok" THEN Fail(b.st, b.c)
                             ELSE OkV(b.c, AluOp2(AluOpName(instruction.i), a.v, b.v))
             First(a) == IF a.st # "ok" THEN Fail(a.st, a.c)
                         ELSE Binary(a, evaluate_source(a.c, instruction.b, checks))
         IN  First(evaluate_source(c, instruction.a, checks))

\* Every arm below returns [st, c, extra]: extra is what the arm adds to cycles.
Arm(r) == [st |-> r.st, c |-> r.c, extra |-> 0]
ArmOk(c) == [st |-> "ok", c |-> c, extra |-> 0]
ArmFail(st, c) == [st |-> st, c |-> c, extra |-> 0]

ExecLoad(c, dest) ==
    LET imm_size == SourceSize(dest)
        Loaded(addr, imm_val) ==
            IF imm_val.st # "ok" THEN ArmFail(imm_val.st, addr.c)
            ELSE Arm(write_to_source(addr.c, dest, imm_val.v))
        Addressed(addr) ==
            IF addr.st # "ok" THEN ArmFail(addr.st, addr.c)
            ELSE IF imm_size.st # "ok" THEN ArmFail("err", addr.c)
            ELSE Loaded(addr, MemoryRead(addr.c.memory, addr.v, imm_size.v))
    IN  Addressed(read_next(c, "Integer16"))

ExecStore(c, source, checks) ==
    LET src_size == SourceSize(source)
        Evaluated(dest, value) ==
            IF value.st # "ok" THEN ArmFail(value.st, value.c)
            ELSE Arm(write_to_source(value.c, dest, value.v))
        Addressed(addr) ==
            IF addr.st # "ok" THEN ArmFail(addr.st, addr.c)
            ELSE Evaluated(SrcMemory(MsAddress(addr.v), src_size.v),
                           evaluate_source(addr.c, source, checks))
    IN  IF src_size.st # "ok" THEN ArmFail("err", c)
        ELSE Addressed(read_next(c, "Integer16"))

\* the Increment and Decrement arms
ExecIncDec(c, source, increment, checks) ==
    LET src_size == SourceSize(source)
        use_alu == (src_size.v = "Integer8" /\ source.s = "Register")
                   \/ source.s = "Accumulator"
        rhs == IF src_size.v = "Integer8"
               THEN Integer8(IF increment THEN 1 ELSE wrapping_neg(1, 8))
               ELSE Integer16(IF increment THEN 1 ELSE wrapping_neg(1, 16))
        AluDone(val, res) ==
            IF res.st # "ok" THEN ArmFail(res.st, val.c)
            ELSE Arm(write_to_source([val.c EXCEPT !.alu = res.alu], source, res.v))
        ViaAlu(val) ==
            IF val.st # "ok" THEN ArmFail(val.st, val.c)
            ELSE AluDone(val, AluEvaluate(val.c.alu,
                              AluOp1(IF increment THEN "Increment" ELSE "Decrement",
                                     val.v)))
        ViaSum(sum) ==
            IF sum.st # "ok" THEN ArmFail(sum.st, sum.c)
            ELSE Arm(write_to_source(sum.c, source, sum.v))
    IN  IF src_size.st # "ok" THEN ArmFail("err", c)
        ELSE IF use_alu THEN ViaAlu(evaluate_source(c, source, checks))
        ELSE ViaSum(evaluate_source(c, SrcSum(source, SrcValue(rhs)), checks))

ExecMove(c, dest, source, checks) ==
    LET Write(src_val) ==
            IF src_val.st # "ok" THEN ArmFail(src_val.st, src_val.c)
            ELSE Arm(write_to_source(src_val.c, dest, src_val.v))
    IN  Write(evaluate_source(c, source, checks))

\* the ALU arm
ExecAlu(c, instruction, checks) ==
    LET Written(c1, wa) == IF wa.st # "ok" THEN ArmFail(wa.st, c1)
                           ELSE ArmOk([c1 EXCEPT !.alu = wa.alu])
        Stored(result, c1) ==
            IF ~result.some THEN ArmOk(c1)
            ELSE Written(c1, write_accumulator(c1.alu, result.v))
        Evaluated(alu_op, result) ==
            IF result.st # "ok" THEN ArmFail(result.st, alu_op.c)
            ELSE Stored(result, [alu_op.c EXCEPT !.alu = result.alu])
        Operation(alu_op) ==
            IF alu_op.st # "ok" THEN ArmFail(alu_op.st, alu_op.c)
            ELSE Evaluated(alu_op, AluEvaluate(alu_op.c.alu, alu_op.v))
    IN  Operation(from_instruction(c, instruction, checks))

\* the DoubleByteAdd arm
ExecDoubleByteAdd(c, rp, checks) ==
    LET Carry(hl_val, rp_val, c1) ==
            IF hl_val + ToU16(rp_val.v) > 65535
            THEN ArmOk([c1 EXCEPT !.alu = AluEvaluate(c1.alu, AluOp0("SetCarry")).alu])
            ELSE IF ~c1.alu.flags.carry
            THEN ArmOk([c1 EXCEPT !.alu =
                            AluEvaluate(c1.alu, AluOp0("ComplementCarry")).alu])
            ELSE ArmOk(c1)
        Written(hl_val, rp_val, w) ==
            Carry(hl_val, rp_val, [rp_val.c EXCEPT !.reg_array = w.ra])
        Added(hl_val, rp_val) ==
            IF rp_val.st # "ok" THEN ArmFail(rp_val.st, rp_val.c)
            ELSE Written(hl_val, rp_val,
                         write_reg(rp_val.c.reg_array, "HL",
                                   Integer16(wrapping_add(hl_val, ToU16(rp_val.v), 16))))
    IN  Added(ToU16(read_reg(c.reg_array, "HL")), evaluate_source(c, rp, checks))

\* pop into PC (Return, and ReturnConditional when taken)
ExecReturn(c, extra, checks) ==
    LET Popped(new_pc) ==
            IF new_pc.st # "ok" THEN ArmFail(new_pc.st, new_pc.c)
            ELSE [st |-> "ok",
                  c |-> [new_pc.c EXCEPT !.reg_array =
                             write_reg(new_pc.c.reg_array, "PC", new_pc.v).ra],
                  extra |-> extra]
    IN  Popped(pop_from_stack(c, "Integer16", checks))

ExecStackPop(c, dest, checks) ==
    LET pop_size == SourceSize(dest)
        Popped(stack_val) ==
            IF stack_val.st # "ok" THEN ArmFail(stack_val.st, stack_val.c)
            ELSE Arm(write_to_source(stack_val.c, dest, stack_val.v))
    IN  IF pop_size.st # "ok" THEN ArmFail("err", c)
        ELSE Popped(pop_from_stack(c, pop_size.v, checks))

ExecJumpConditional(c, condition) ==
    LET Addressed(addr) ==
            IF addr.st # "ok" THEN ArmFail(addr.st, addr.c)
            ELSE IF evaluate_condition(addr.c.alu.flags, condition)
            THEN ArmOk([addr.c EXCEPT !.reg_array =
                            write_reg(addr.c.reg_array, "PC", addr.v).ra])
            ELSE ArmOk(addr.c)
    IN  Addressed(read_next(c, "Integer16"))

\* a variant of the Jump arm that never stops the machine
ExecJumpAlways(c) ==
    LET Addressed(addr) ==
            IF addr.st # "ok" THEN ArmFail(addr.st, addr.c)
            ELSE ArmOk([addr.c EXCEPT !.reg_array =
                            write_reg(addr.c.reg_array, "PC", addr.v).ra])
    IN  Addressed(read_next(c, "Integer16"))

ExecJump(c) ==
    LET Addressed(addr) ==
            IF addr.st # "ok" THEN ArmFail(addr.st, addr.c)
            ELSE IF RvEq(addr.v, Integer16(0))
            THEN ArmOk([addr.c EXCEPT !.running = FALSE])
            ELSE ArmOk([addr.c EXCEPT !.reg_array =
                            write_reg(addr.c.reg_array, "PC", addr.v).ra])
    IN  Addressed(read_next(c, "Integer16"))

\* push PC and jump to addr (Call without a handler, CallConditional when taken)
PushPcAndJump(c, addr, extra, checks) ==
    LET pc_val == read_reg(c.reg_array, "PC")
        Pushed(p) ==
            IF p.st # "ok" THEN ArmFail(p.st, p.c)
            ELSE [st |-> "ok",
                  c |-> [p.c EXCEPT !.reg_array = write_reg(p.c.reg_array, "PC", addr).ra],
                  extra |-> extra]
    IN  Pushed(push_to_stack(c, pc_val, checks))

ExecCallConditional(c, condition, checks) ==
    LET Addressed(addr) ==
            IF addr.st # "ok" THEN ArmFail(addr.st, addr.c)
            ELSE IF evaluate_condition(addr.c.alu.flags, condition)
            THEN PushPcAndJump(addr.c, addr.v, 6, checks)
            ELSE ArmOk(addr.c)
    IN  Addressed(read_next(c, "Integer16"))

ExecStackPush(c, source, checks) ==
    LET Push(value) ==
            IF value.st # "ok" THEN ArmFail(value.st, value.c)
            ELSE Arm(push_to_stack(value.c, value.v, checks))
    IN  Push(evaluate_source(c, source, checks))

ExecReset(c, n, checks) ==
    LET Vector(nv) ==
            IF nv.st # "ok" THEN ArmFail(nv.st, nv.c)
            ELSE ArmOk([nv.c EXCEPT !.reg_array =
                            write_reg(nv.c.reg_array, "PC",
                                      Integer16((ToU16(nv.v) * 8) % 65536)).ra])
    IN  Vector(evaluate_source(c, n, checks))

ExecCall(c, checks) ==
    LET Addressed(addr) ==
            IF addr.st # "ok" THEN ArmFail(addr.st, addr.c)
            ELSE IF ToU16(addr.v) \in addr.c.subroutines
            THEN Arm(bdos(addr.c, checks))
            ELSE PushPcAndJump(addr.c, addr.v, 0, checks)
    IN  Addressed(read_next(c, "Integer16"))

ExecIoOut(c) ==
    LET Out(port) ==
            IF port.st # "ok" THEN ArmFail(port.st, port.c)
            ELSE Arm(write_to_port(port.c, port.v, port.c.alu.accumulator))
    IN  Out(read_next(c, "Integer8"))

ExecIoIn(c) ==
    LET Written(port, wa) == IF wa.st # "ok" THEN ArmFail(wa.st, port.c)
                             ELSE ArmOk([port.c EXCEPT !.alu = wa.alu])
        Read(port, port_val) ==
            IF port_val.st # "ok" THEN ArmFail("err", port.c)
            ELSE Written(port, write_accumulator(port.c.alu, port_val.v))
        In(port) == IF port.st # "ok" THEN ArmFail(port.st, port.c)
                    ELSE Read(port, read_port(port.c, port.v))
    IN  In(read_next(c, "Integer8"))

ExecExchange(c, src_a, src_b, checks) ==
    LET First(val_a, w1) ==
            IF w1.st # "ok" THEN ArmFail(w1.st, w1.c)
            ELSE Arm(write_to_source(w1.c, src_b, val_a.v))
        Both(val_a, val_b) ==
            IF val_b.st # "ok" THEN ArmFail(val_b.st, val_b.c)
            ELSE First(val_a, write_to_source(val_b.c, src_a, val_b.v))
        One(val_a) ==
            IF val_a.st # "ok" THEN ArmFail(val_a.st, val_a.c)
            ELSE Both(val_a, evaluate_source(val_a.c, src_b, checks))
    IN  One(evaluate_source(c, src_a, checks))

\* the match of Cpu::execute
ExecMatch(c, instruction, checks) ==
    LET i == instruction.i
    IN  CASE i = "Nop" -> ArmOk(c)
          [] i = "Load" -> ExecLoad(c, instruction.a)
          [] i = "Store" -> ExecStore(c, instruction.a, checks)
          [] i = "Increment" -> ExecIncDec(c, instruction.a, TRUE, checks)
          [] i = "Decrement" -> ExecIncDec(c, instruction.a, FALSE, checks)
          [] i = "Move" -> ExecMove(c, instruction.a, instruction.b, checks)
          [] i \in AluInstructions -> ExecAlu(c, instruction, checks)
          [] i = "DoubleByteAdd" -> ExecDoubleByteAdd(c, instruction.a, checks)
          [] i = "ReturnConditional" ->
                IF evaluate_condition(c.alu.flags, instruction.a)
                THEN ExecReturn(c, 6, checks) ELSE ArmOk(c)
          [] i = "Halt" -> ArmOk([c EXCEPT !.running = FALSE])
          [] i = "StackPop" -> ExecStackPop(c, instruction.a, checks)
          [] i = "JumpConditional" -> ExecJumpConditional(c, instruction.a)
          [] i = "Jump" -> ExecJump(c)
          [] i = "CallConditional" -> ExecCallConditional(c, instruction.a, checks)
          [] i = "StackPush" -> ExecStackPush(c, instruction.a, checks)
          [] i = "Reset" -> ExecReset(c, instruction.a, checks)
          [] i = "Return" -> ExecReturn(c, 0, checks)
          [] i = "Call" -> ExecCall(c, checks)
          [] i = "IoOut" -> ExecIoOut(c)
          [] i = "IoIn" -> ExecIoIn(c)
          [] i = "Exchange" -> ExecExchange(c, instruction.a, instruction.b, checks)
          [] i = "DisableInterrupts" -> ArmOk([c EXCEPT !.interrupts_enabled = FALSE])
          [] i = "EnableInterrupts" -> ArmOk([c EXCEPT !.interrupts_enabled = TRUE])

\* a variant of Cpu::execute that charges the table entry alone
ExecuteBaseCycles(c, opcode, instruction, checks) ==
    LET Counted(u2, cycles) ==
            IF u2.st # "ok" THEN Fail(u2.st, u2.c)
            ELSE IF cycles # 0
            THEN OkV([u2.c EXCEPT !.total_cycles = u2.c.total_cycles + cycles], cycles)
            ELSE Fail("err", u2.c)
        Matched(m) ==
            IF m.st # "ok" THEN Fail(m.st, m.c)
            ELSE Counted(update_status_word(m.c), BaseCycles(opcode))
        Updated(u1) ==
            IF u1.st # "ok" THEN Fail(u1.st, u1.c)
            ELSE Matched(ExecMatch(u1.c, instruction, checks))
    IN  Updated(update_status_word(c))

\* Cpu::execute: returns [st, c, v]; v is the number of cycles
Execute(c, opcode, instruction, checks) ==
    LET Counted(u2, cycles) ==
            IF u2.st # "ok" THEN Fail(u2.st, u2.c)
            ELSE IF cycles # 0
            THEN OkV([u2.c EXCEPT !.total_cycles = u2.c.total_cycles + cycles], cycles)
            ELSE Fail("err", u2.c)
        Matched(m) ==
            IF m.st # "ok" THEN Fail(m.st, m.c)
            ELSE Counted(update_status_word(m.c), BaseCycles(opcode) + m.extra)
        Updated(u1) ==
            IF u1.st # "ok" THEN Fail(u1.st, u1.c)
            ELSE Matched(ExecMatch(u1.c, instruction, checks))
    IN  Updated(update_status_word(c))

\* a variant of execute_next that does not look at running
execute_next_always(c, checks) ==
    LET Decoded(d) == IF d.st # "ok" THEN Fail(d.st, d.c)
                      ELSE Execute(d.c, d.opcode, d.instr, checks)
    IN  Decoded(decode_next_instruction(c))

\* Cpu::execute_next
execute_next(c, checks) ==
    IF c.running
    THEN LET Decoded(d) == IF d.st # "ok" THEN Fail(d.st, d.c)
                           ELSE Execute(d.c, d.opcode, d.instr, checks)
         IN  Decoded(decode_next_instruction(c))
    ELSE OkV(c, 0)

\* a variant of the loop of execute_cycles that stops as soon as the target is
\* reached
RECURSIVE execute_cycles_until(_, _, _, _)
execute_cycles_until(c, target_cycles, last, checks) ==
    IF c.total_cycles < target_cycles
    THEN IF ~c.running THEN Fail("hang", c)
         ELSE LET Stepped(r) ==
                      IF r.st # "ok" THEN Fail(r.st, r.c)
                      ELSE execute_cycles_until(r.c, target_cycles, r.v, checks)
              IN  Stepped(execute_next(c, checks))
    ELSE [st |-> "ok", c |-> c, v |-> c.total_cycles - target_cycles, last |-> last]

\* the loop of Cpu::execute_cycles.  A machine that is not running makes
\* execute_next return Ok(0) without adding cycles, so the loop never ends.
\* The result also carries last, the cost of the last instruction executed.
RECURSIVE execute_cycles_loop(_, _, _, _)
execute_cycles_loop(c, target_cycles, last, checks) ==
    IF c.total_cycles <= target_cycles
    THEN IF ~c.running THEN Fail("hang", c)
         ELSE LET Stepped(r) ==
                      IF r.st # "ok" THEN Fail(r.st, r.c)
                      ELSE execute_cycles_loop(r.c, target_cycles, r.v, checks)
              IN  Stepped(execute_next(c, checks))
    ELSE [st |-> "ok", c |-> c, v |-> c.total_cycles - target_cycles, last |-> last]

\* Cpu::execute_cycles (the counters are usize: the sums of the runs below are
\* far from its range)
execute_cycles(c, cycles, checks) ==
    execute_cycles_loop(c, c.total_cycles + cycles, 0, checks)

----------------------------------------------------------------------------
(* The ALU on its own: Alu::evaluate applied to operands of the caller *)

\* the observers used by the properties
Acc(c) == c.alu.accumulator
Flags(c) == c.alu.flags
Pc(c) == c.reg_array.program_counter
Sp(c) == c.reg_array.stack_pointer
LastCall == calls[Len(calls)]
PopCount(x) == Cardinality({i \in 0..7 : Bit(x, i) = 1})

\* a Cpu::new() whose ALU holds the accumulator a and the flags f
CpuWithAlu(a, f) == [CpuNew EXCEPT !.alu = [accumulator |-> Integer8(a), flags |-> f]]

\* the flag patterns the ALU runs start from
StartFlags == {f \in AllFlags : f.zero = f.sign /\ f.parity = f.aux_carry}

InitAdd ==
    /\ overflow_checks \in BOOLEAN
    /\ cpu \in {CpuWithAlu(0, [AluFlagsNew EXCEPT !.carry = cy]) : cy \in BOOLEAN}
    /\ init_cpu = cpu
    /\ pre = cpu
    /\ calls = <<>>

\* alu.evaluate(AluOperation::Add(a, b))
EvaluateAdd ==
    /\ calls = <<>>
    /\ \E a \in U8, b \in U8 :
          LET r == AluEvaluate(cpu.alu, AluOp2("Add", Integer8(a), Integer8(b)))
          IN  /\ cpu' = [cpu EXCEPT !.alu = r.alu]
              /\ calls' = <<[op |-> "Add", a |-> a, b |-> b, st |-> r.st, v |-> r.v]>>
    /\ pre' = cpu
    /\ UNCHANGED <<init_cpu, overflow_checks>>

NextAdd == EvaluateAdd

SpecAdd == InitAdd /\ [][NextAdd]_vars

MaxRotations == 9

RotateOps == {"RotateLeft", "RotateRight", "RotateLeftThroughCarry",
              "RotateRightThroughCarry"}

InitRotate ==
    /\ overflow_checks \in BOOLEAN
    /\ cpu \in {CpuWithAlu(x, f) : x \in U8, f \in StartFlags}
    /\ init_cpu = cpu
    /\ pre = cpu
    /\ calls = <<>>

\* alu.evaluate of one rotation, applied to the accumulator; a run keeps to the
\* rotation it started with
EvaluateRotate ==
    /\ Len(calls) < MaxRotations
    /\ \E op \in RotateOps :
          /\ calls # <<>> => op = calls[1].op
          /\ LET r == AluEvaluate(cpu.alu, AluOp1(op, Acc(cpu)))
             IN  /\ cpu' = [cpu EXCEPT !.alu = r.alu]
                 /\ calls' = Append(calls, [op |-> op, a |-> Acc(cpu).v,
                                            st |-> r.st, v |-> r.v])
    /\ pre' = cpu
    /\ UNCHANGED <<init_cpu, overflow_checks>>

NextRotate == EvaluateRotate

SpecRotate == InitRotate /\ [][NextRotate]_vars

\* The two-operand arithmetic other than ADD, and the 8-bit increment and
\* decrement, applied to the accumulator
ArithOps == {"AddCarry", "Sub", "SubBorrow", "Comparison"}
IncDecOps == {"Increment", "Decrement"}

InitArith ==
    /\ overflow_checks \in BOOLEAN
    /\ cpu \in {CpuWithAlu(a, [AluFlagsNew EXCEPT !.carry = cy]) :
                   a \in U8, cy \in BOOLEAN}
    /\ init_cpu = cpu
    /\ pre = cpu
    /\ calls = <<>>

\* alu.evaluate(AluOperation::AddCarry / Sub / SubBorrow / Comparison(A, b))
EvaluateArith ==
    /\ calls = <<>>
    /\ \E op \in ArithOps, b \in U8 :
          LET Evaluated(r) ==
                  /\ cpu' = [cpu EXCEPT !.alu = r.alu]
                  /\ calls' = <<[op |-> op, a |-> Acc(cpu).v, b |-> b, st |-> r.st,
                                 some |-> r.some]>>
          IN  Evaluated(AluEvaluate(cpu.alu, AluOp2(op, Acc(cpu), Integer8(b))))
    /\ pre' = cpu
    /\ UNCHANGED <<init_cpu, overflow_checks>>

\* alu.evaluate(AluOperation::Increment / Decrement(A))
EvaluateIncDec ==
    /\ calls = <<>>
    /\ \E op \in IncDecOps :
          LET Evaluated(r) ==
                  /\ cpu' = [cpu EXCEPT !.alu = r.alu]
                  /\ calls' = <<[op |-> op, a |-> Acc(cpu).v, b |-> 1, st |-> r.st,
                                 some |-> r.some]>>
          IN  Evaluated(AluEvaluate(cpu.alu, AluOp1(op, Acc(cpu))))
    /\ pre' = cpu
    /\ UNCHANGED <<init_cpu, overflow_checks>>

NextArith == EvaluateArith \/ EvaluateIncDec

SpecArith == InitArith /\ [][NextArith]_vars

\* ADD followed by DAA, and DAA on its own, from every accumulator, carry and
\* auxiliary carry
InitDaa ==
    /\ overflow_checks \in BOOLEAN
    /\ cpu \in {CpuWithAlu(a, [AluFlagsNew EXCEPT !.carry = cy, !.aux_carry = ac]) :
                   a \in U8, cy \in BOOLEAN, ac \in BOOLEAN}
    /\ init_cpu = cpu
    /\ pre = cpu
    /\ calls = <<>>

\* alu.evaluate(AluOperation::Add(A, b))
EvaluateAddToAcc ==
    /\ calls = <<>>
    /\ \E b \in U8 :
          LET Evaluated(r) ==
                  /\ cpu' = [cpu EXCEPT !.alu = r.alu]
                  /\ calls' = <<[op |-> "Add", a |-> Acc(cpu).v, b |-> b, st |-> r.st]>>
          IN  Evaluated(AluEvaluate(cpu.alu, AluOp2("Add", Acc(cpu), Integer8(b))))
    /\ pre' = cpu
    /\ UNCHANGED <<init_cpu, overflow_checks>>

\* alu.evaluate(AluOperation::DecimalAdjust(A)), first or after the ADD
EvaluateDaa ==
    /\ calls = <<>> \/ (Len(calls) = 1 /\ calls[1].op = "Add")
    /\ LET Evaluated(r) ==
               /\ cpu' = [cpu EXCEPT !.alu = r.alu]
               /\ calls' = Append(calls, [op |-> "DecimalAdjust", a |-> Acc(cpu).v,
                                          b |-> 0, st |-> r.st])
       IN  Evaluated(AluEvaluate(cpu.alu, AluOp1("DecimalAdjust", Acc(cpu))))
    /\ pre' = cpu
    /\ UNCHANGED <<init_cpu, overflow_checks>>

NextDaa == EvaluateAddToAcc \/ EvaluateDaa

SpecDaa == InitDaa /\ [][NextDaa]_vars

\* Sequences of Alu::evaluate and Alu::write_accumulator calls on a new ALU,
\* with operands of every width a RegisterValue has
MaxAluCalls == 2

OperandValues ==
    {Integer8(v) : v \in {0, 1, 15, 128, 255}}
        \cup {Integer16(v) : v \in {0, 255, 256, 65535}}
        \cup {Integer8Pair(h, l) : h \in {0, 255}, l \in {0, 255}}

\* the calls so far all returned Ok
AllOk == \A i \in 1..Len(calls) : calls[i].st = "ok"

InitAccumulator ==
    /\ overflow_checks \in BOOLEAN
    /\ cpu = CpuNew
    /\ init_cpu = cpu
    /\ pre = cpu
    /\ calls = <<>>

\* alu.evaluate(operation) for a one-operand operation; the operand is a
\* value of any width or the accumulator
EvaluateUnary ==
    /\ Len(calls) < MaxAluCalls
    /\ AllOk
    /\ \E op \in UnaryOps, a \in OperandValues \cup {Acc(cpu)} :
          LET Evaluated(r) ==
                  /\ cpu' = [cpu EXCEPT !.alu = r.alu]
                  /\ calls' = Append(calls, [op |-> op, st |-> r.st])
          IN  Evaluated(AluEvaluate(cpu.alu, AluOp1(op, a)))
    /\ pre' = cpu
    /\ UNCHANGED <<init_cpu, overflow_checks>>

\* alu.evaluate(operation) for a two-operand operation
EvaluateBinary ==
    /\ Len(calls) < MaxAluCalls
    /\ AllOk
    /\ \E op \in BinaryOps, a \in OperandValues \cup {Acc(cpu)}, b \in OperandValues :
          LET Evaluated(r) ==
                  /\ cpu' = [cpu EXCEPT !.alu = r.alu]
                  /\ calls' = Append(calls, [op |-> op, st |-> r.st])
          IN  Evaluated(AluEvaluate(cpu.alu, AluOp2(op, a, b)))
    /\ pre' = cpu
    /\ UNCHANGED <<init_cpu, overflow_checks>>

\* alu.evaluate(AluOperation::SetCarry / ComplementCarry)
EvaluateCarry ==
    /\ Len(calls) < MaxAluCalls
    /\ AllOk
    /\ \E op \in {"SetCarry", "ComplementCarry"} :
          LET Evaluated(r) ==
                  /\ cpu' = [cpu EXCEPT !.alu = r.alu]
                  /\ calls' = Append(calls, [op |-> op, st |-> r.st])
          IN  Evaluated(AluEvaluate(cpu.alu, AluOp0(op)))
    /\ pre' = cpu
    /\ UNCHANGED <<init_cpu, overflow_checks>>

\* alu.write_accumulator(value)
WriteAccumulator ==
    /\ Len(calls) < MaxAluCalls
    /\ AllOk
    /\ \E value \in OperandValues :
          LET Written(r) ==
                  /\ cpu' = [cpu EXCEPT !.alu = r.alu]
                  /\ calls' = Append(calls, [op |-> "write_accumulator", st |-> r.st])
          IN  Written(write_accumulator(cpu.alu, value))
    /\ pre' = cpu
    /\ UNCHANGED <<init_cpu, overflow_checks>>

NextAccumulator == EvaluateUnary \/ EvaluateBinary \/ EvaluateCarry \/ WriteAccumulator

SpecAccumulator == InitAccumulator /\ [][NextAccumulator]_vars

----------------------------------------------------------------------------
(* The register file on its own *)

\* a register file whose registers all hold different values
RegisterPattern ==
    [RegisterArrayNew EXCEPT !.program_counter = 256, !.stack_pointer = 4096,
                             !.reg_a = 161, !.reg_f = 2,
                             !.reg_b = 17, !.reg_c = 34, !.reg_d = 51, !.reg_e = 68,
                             !.reg_h = 85, !.reg_l = 102, !.reg_w = 119, !.reg_z = 136]

InitReg ==
    /\ overflow_checks \in BOOLEAN
    /\ cpu = [CpuNew EXCEPT !.reg_array = RegisterPattern]
    /\ init_cpu = cpu
    /\ pre = cpu
    /\ calls = <<>>

\* reg_array.write_reg(register, value)
WriteReg(register, value) ==
    /\ LET w == write_reg(cpu.reg_array, register, value)
       IN  /\ cpu' = [cpu EXCEPT !.reg_array = w.ra]
           /\ calls' = <<[op |-> "write_reg", a |-> register, b |-> value, st |-> w.st]>>
    /\ pre' = cpu
    /\ UNCHANGED <<init_cpu, overflow_checks>>

WriteReg8 ==
    /\ calls = <<>>
    /\ \E r \in {"B", "C", "D", "E", "H", "L"}, v \in U8 : WriteReg(r, Integer8(v))

WriteReg16 ==
    /\ calls = <<>>
    /\ \E p \in {"BC", "DE", "HL"}, v \in U16 : WriteReg(p, Integer16(v))

NextReg == WriteReg8 \/ WriteReg16

SpecReg == InitReg /\ [][NextReg]_vars

\* values of the three kinds, written to every register
WidthValues ==
    {Integer8(0), Integer8(165), Integer16(0), Integer16(165), Integer16(43981),
     Integer8Pair(171, 205), Integer8Pair(0, 7)}

WriteRegAny ==
    /\ calls = <<>>
    /\ \E register \in Register, value \in WidthValues : WriteReg(register, value)

NextWidth == WriteRegAny

SpecWidth == InitReg /\ [][NextWidth]_vars

----------------------------------------------------------------------------
(* The memory on its own *)

\* a memory with bytes around the addresses the runs write to
MemoryPattern ==
    (0 :> 193) @@ (1 :> 7) @@ (2 :> 9) @@ (4659 :> 90) @@ (4661 :> 91) @@
    (4662 :> 92) @@ (65533 :> 17) @@ (65534 :> 18) @@ (65535 :> 19)

\* the addresses and values every value / every address is tried with
SampleAddresses == {0, 4660, 65534}
SampleBytes == {165}
SampleWords == {4660, 65281}

\* the values written at the address a: every value at a sample address, the
\* sample values elsewhere
WriteValues(a) ==
    {Integer8(v) : v \in IF a \in SampleAddresses THEN U8 ELSE SampleBytes}
    \cup {Integer16(w) : w \in IF a \in SampleAddresses THEN U16 ELSE SampleWords}

InitMem ==
    /\ overflow_checks \in BOOLEAN
    /\ cpu = [CpuNew EXCEPT !.memory = MemoryPattern]
    /\ init_cpu = cpu
    /\ pre = cpu
    /\ calls = <<>>

\* memory.write(addr, value)
MemWrite ==
    /\ calls = <<>>
    /\ \E a \in U16 : \E value \in WriteValues(a) :
          LET w == MemoryWrite(cpu.memory, Integer16(a), value)
          IN  /\ cpu' = [cpu EXCEPT !.memory = w.data]
              /\ calls' = <<[op |-> "write", a |-> a, b |-> value, st |-> w.st]>>
    /\ pre' = cpu
    /\ UNCHANGED <<init_cpu, overflow_checks>>

\* memory.read(addr, size) at the address and with the size just written
MemRead ==
    /\ Len(calls) = 1
    /\ calls[1].st = "ok"
    /\ LET size == IF calls[1].b.t = "Integer8" THEN "Integer8" ELSE "Integer16"
           r == MemoryRead(cpu.memory, Integer16(calls[1].a), size)
       IN  calls' = Append(calls, [op |-> "read", a |-> calls[1].a, b |-> size,
                                   st |-> r.st, v |-> r.v])
    /\ pre' = cpu
    /\ UNCHANGED <<cpu, init_cpu, overflow_checks>>

\* memory.read(addr, size) at any address, before any write
MemReadAt ==
    /\ calls = <<>>
    /\ \E a \in U16, size \in {"Integer8", "Integer16"} :
          LET r == MemoryRead(cpu.memory, Integer16(a), size)
          IN  calls' = <<[op |-> "read", a |-> a, b |-> size, st |-> r.st,
                          v |-> IF r.st = "ok" THEN r.v ELSE Integer8(0)]>>
    /\ pre' = cpu
    /\ UNCHANGED <<cpu, init_cpu, overflow_checks>>

\* memory.write with a pair of bytes as the value, near the top of memory
MemWritePair ==
    /\ calls = <<>>
    /\ \E a \in {0, 65534, 65535}, h \in SampleBytes, l \in SampleBytes :
          LET w == MemoryWrite(cpu.memory, Integer16(a), Integer8Pair(h, l))
          IN  /\ cpu' = [cpu EXCEPT !.memory = w.data]
              /\ calls' = <<[op |-> "write", a |-> a, b |-> Integer8Pair(h, l),
                             st |-> w.st]>>
    /\ pre' = cpu
    /\ UNCHANGED <<init_cpu, overflow_checks>>

NextMem == MemWrite \/ MemRead

\* single accesses of either kind and width at every address
NextAccess == MemWrite \/ MemWritePair \/ MemReadAt

SpecAccess == InitMem /\ [][NextAccess]_vars

SpecMem == InitMem /\ [][NextMem]_vars

----------------------------------------------------------------------------
(* The decoder on its own *)

InitDecode ==
    /\ overflow_checks \in BOOLEAN
    /\ cpu = CpuNew
    /\ init_cpu = cpu
    /\ pre = cpu
    /\ calls = <<>>

\* Instruction::decode(RegisterValue::from(byte))
DecodeByte ==
    /\ calls = <<>>
    /\ \E byte \in U8 :
          LET d == Decode(Integer8(byte))
          IN  calls' = <<[op |-> "decode", a |-> byte, st |-> d.st,
                          v |-> IF d.st = "ok" THEN d.instr ELSE Ins0("None")]>>
    /\ UNCHANGED <<cpu, init_cpu, pre, overflow_checks>>

NextDecode == DecodeByte

SpecDecode == InitDecode /\ [][NextDecode]_vars

----------------------------------------------------------------------------
(* load_to_memory on its own *)

MaxLoad == 3
LoadOrigins == {0, 1, 256, 65533, 65534, 65535}
LoadBytes == {0, 7, 255}
LoadData == UNION {[1..n -> LoadBytes] : n \in 0..MaxLoad}

InitLoad ==
    /\ overflow_checks \in BOOLEAN
    /\ cpu = [CpuNew EXCEPT !.memory = MemoryPattern]
    /\ init_cpu = cpu
    /\ pre = cpu
    /\ calls = <<>>

\* cpu.load_to_memory(data, start_addr)
LoadToMemory ==
    /\ calls = <<>>
    /\ \E start_addr \in LoadOrigins, data \in LoadData :
          LET Returned(r) ==
                  /\ cpu' = r.c
                  /\ calls' = <<[op |-> "load_to_memory", a |-> start_addr,
                                 b |-> data, st |-> r.st]>>
          IN  Returned(load_to_memory(cpu, data, start_addr, overflow_checks))
    /\ pre' = cpu
    /\ UNCHANGED <<init_cpu, overflow_checks>>

NextLoad == LoadToMemory

SpecLoad == InitLoad /\ [][NextLoad]_vars

----------------------------------------------------------------------------
(* The whole machine: programs loaded at 0x0100 and stepped with execute_next *)

MaxSteps == 5

\* where main.rs loads the program and starts it (sim_handler, lines 29-31)
ProgramOrigin == 256

\* the set-up of main.rs's sim_handler before its run loop: the BDOS stub (when
\* bdos_installed), PC, the program, the port callback
Boot(program, bdos_installed) ==
    LET c0 == IF bdos_installed THEN add_cpm_bdos(CpuNew) ELSE CpuNew
        c1 == set_pc(c0, ProgramOrigin)
        c2 == load_to_memory(c1, program, ProgramOrigin, FALSE).c
    IN  set_port_handler_fn(c2, "main")

\* a machine whose accumulator, flags, stack pointer and registers B..L have
\* been given values before the run, regs being the bytes of B, C, D, E, H, L
Prepared(c, a, flags, sp, regs) ==
    [c EXCEPT !.alu = [accumulator |-> Integer8(a), flags |-> flags],
              !.reg_array.stack_pointer = sp,
              !.reg_array.reg_b = regs[1], !.reg_array.reg_c = regs[2],
              !.reg_array.reg_d = regs[3], !.reg_array.reg_e = regs[4],
              !.reg_array.reg_h = regs[5], !.reg_array.reg_l = regs[6]]

\* one ALU instruction: DAA, SUB B or ADD B
AluOpcodes == {39, 144, 128}
AluOperandsB == {62, 108}
AluScenarios ==
    {Prepared(Boot(<<op>>, FALSE), a,
              [AluFlagsNew EXCEPT !.carry = cy, !.aux_carry = ac],
              0, <<b, 34, 51, 68, 85, 102>>) :
        op \in AluOpcodes, a \in U8, b \in AluOperandsB, cy \in BOOLEAN, ac \in BOOLEAN}

\* PUSH rp ; POP rp, for rp = BC, DE, HL, PSW
PushOpcodes == {197, 213, 229, 245}
StackPointers == {1, 2, 3, 258, 4096, 65535}
StackAccumulators == {0, 155}
StackScenarios ==
    {Prepared(Boot(<<op, op - 4>>, FALSE), a, f, sp, <<17, 34, 51, 68, 85, 102>>) :
        op \in PushOpcodes, a \in StackAccumulators, f \in AllFlags, sp \in StackPointers}

\* Ccc 0x1234 (or CALL 0x1234) with RET at 0x1234
CallOpcodes == {196, 204, 212, 220, 228, 236, 244, 252, 205}
CallStackPointers == {65280, 8192}
CallScenarios ==
    {Prepared(load_to_memory(Boot(<<op, 52, 18>>, FALSE), <<201>>, 4660, FALSE).c,
              0, f, sp, <<17, 34, 51, 68, 85, 102>>) :
        op \in CallOpcodes, f \in AllFlags, sp \in CallStackPointers}

\* MVI C,fn ; MVI E,e ; CALL 0x0005 ; HLT, with the text "HI$" at 0x0040
BdosFunctions == {2, 9, 0}
BdosText == <<72, 73, 36>>
BdosTextAt == 64
BdosProgram(fn, e) == <<14, fn, 30, e, 205, 5, 0, 118>>
BdosOperands(fn) == IF fn = 2 THEN U8 ELSE {64, 65, 66}
BdosScenarios ==
    UNION {{load_to_memory(Boot(BdosProgram(fn, e), installed),
                           BdosText, BdosTextAt, FALSE).c :
               installed \in BOOLEAN, e \in BdosOperands(fn)} : fn \in BdosFunctions}

\* JMP a16 placed at several addresses, the top of memory included, in machines
\* that differ in accumulator, flags and stack pointer
JumpOrigins == {256, 65533, 65534}
JumpTargets == {0, 1, 256, 4660, 65535}
JumpFlags == {AluFlagsNew, from_bools(TRUE, TRUE, TRUE, TRUE, TRUE)}
JumpScenarios ==
    {Prepared(set_pc(load_to_memory(Boot(<<>>, FALSE),
                                    <<195, t % 256, t \div 256>>, o, FALSE).c, o),
              a, f, sp, <<17, 34, 51, 68, 85, 102>>) :
        o \in JumpOrigins, t \in JumpTargets, a \in StackAccumulators,
        f \in JumpFlags, sp \in CallStackPointers}

\* every byte 0x00..0xFF as the instruction at PC, its operand bytes 0
OpcodeScenarios ==
    {Prepared(Boot(<<op>>, FALSE), a, f, sp, <<17, 34, 51, 68, 85, 102>>) :
        op \in U8, a \in StackAccumulators, f \in JumpFlags, sp \in CallStackPointers}

\* STAX B, STAX D, LDAX B, LDAX D with the bytes AB CD at 0x1122 (the address
\* in BC) and EF 12 at 0x3344 (the address in DE)
IndirectOpcodes == {2, 18, 10, 26}
IndirectScenarios ==
    {Prepared(load_to_memory(load_to_memory(Boot(<<op>>, FALSE),
                                            <<171, 205>>, 4386, FALSE).c,
                             <<239, 18>>, 13124, FALSE).c,
              a, f, sp, <<17, 34, 51, 68, 85, 102>>) :
        op \in IndirectOpcodes, a \in StackAccumulators, f \in JumpFlags,
        sp \in CallStackPointers}

\* RST n with RET at the vector 8*n
ResetVectors == 0..7
ResetScenarios ==
    {Prepared(load_to_memory(Boot(<<199 + 8 * n>>, FALSE), <<201>>, 8 * n, FALSE).c,
              0, f, sp, <<17, 34, 51, 68, 85, 102>>) :
        n \in ResetVectors, f \in JumpFlags, sp \in CallStackPointers}

\* Ccc 0x0005 (or CALL 0x0005) ; HLT with the BDOS stub installed at 0x0005,
\* C = 2 (write the character in E) and E = 'A'
HandlerCallScenarios ==
    {Prepared(Boot(<<op, 5, 0, 118>>, TRUE), 0, f, sp, <<17, 2, 51, 65, 85, 102>>) :
        op \in CallOpcodes, f \in JumpFlags, sp \in CallStackPointers}

\* POP PSW ; PUSH PSW with every byte f at SP and a at SP+1
PopPswScenarios ==
    {Prepared(load_to_memory(Boot(<<241, 245>>, FALSE), <<f, a>>, sp, FALSE).c,
              0, AluFlagsNew, sp, <<17, 34, 51, 68, 85, 102>>) :
        f \in U8, a \in StackAccumulators, sp \in CallStackPointers}

\* INR M and DCR M with several bytes at the address in HL (0x5566)
MemoryIncDecOpcodes == {52, 53}
MemoryIncDecBytes == {0, 1, 15, 16, 127, 128, 254, 255}
MemoryIncDecScenarios ==
    {Prepared(load_to_memory(Boot(<<op>>, FALSE), <<b>>, 21862, FALSE).c,
              a, f, 65280, <<17, 34, 51, 68, 85, 102>>) :
        op \in MemoryIncDecOpcodes, b \in MemoryIncDecBytes, a \in StackAccumulators,
        f \in JumpFlags}

\* INX rp and DCX rp, every pair and SP holding the same value v
PairIncDecOpcodes == {3, 19, 35, 51, 11, 27, 43, 59}
PairIncDecValues == {0, 1, 4660, 65535}
PairIncDecScenarios ==
    {Prepared(Boot(<<op>>, FALSE), a, f, v,
              <<v \div 256, v % 256, v \div 256, v % 256, v \div 256, v % 256>>) :
        op \in PairIncDecOpcodes, v \in PairIncDecValues, a \in StackAccumulators,
        f \in JumpFlags}

\* Ccc 0x1234 (or CALL 0x1234) with SP = 1, so that the push would store at
\* 0xFFFF
StackTopScenarios ==
    {Prepared(Boot(<<op, 52, 18>>, FALSE), 0, f, 1, <<17, 34, 51, 68, 85, 102>>) :
        op \in CallOpcodes, f \in JumpFlags}

Init ==
    /\ overflow_checks \in BOOLEAN
    /\ cpu \in AluScenarios \cup StackScenarios \cup CallScenarios \cup BdosScenarios
                \cup JumpScenarios \cup OpcodeScenarios \cup IndirectScenarios
                \cup ResetScenarios \cup HandlerCallScenarios \cup PopPswScenarios
                \cup MemoryIncDecScenarios \cup PairIncDecScenarios
                \cup StackTopScenarios
    /\ init_cpu = cpu
    /\ pre = cpu
    /\ calls = <<>>

\* cpu.execute_next(); a panic or a call that never returns ends the run
ExecuteNext ==
    /\ Len(calls) < MaxSteps
    /\ calls # <<>> => LastCall.st \in {"ok", "err"}
    /\ LET Returned(r) ==
               /\ cpu' = r.c
               /\ calls' = Append(calls, [op |-> "execute_next", st |-> r.st,
                                          v |-> IF r.st = "ok" THEN r.v ELSE 0])
       IN  Returned(execute_next(cpu, overflow_checks))
    /\ pre' = cpu
    /\ UNCHANGED <<init_cpu, overflow_checks>>

Next == ExecuteNext

Spec == Init /\ [][Next]_vars

\* The same machines driven with execute_cycles
MaxCycleCalls == 2
CycleBudgets == {0, 4, 10, 17, 27}

InitCycles ==
    /\ overflow_checks \in BOOLEAN
    /\ cpu \in CallScenarios \cup BdosScenarios \cup JumpScenarios
    /\ init_cpu = cpu
    /\ pre = cpu
    /\ calls = <<>>

\* cpu.execute_cycles(cycles); a panic or a call that never returns ends the run
ExecuteCycles ==
    /\ Len(calls) < MaxCycleCalls
    /\ calls # <<>> => LastCall.st \in {"ok", "err"}
    /\ \E cycles \in CycleBudgets :
          LET Returned(r) ==
                  /\ cpu' = r.c
                  /\ calls' = Append(calls,
                                     [op |-> "execute_cycles", a |-> cycles, st |-> r.st,
                                      v |-> IF r.st = "ok" THEN r.v ELSE 0,
                                      last |-> IF r.st = "ok" THEN r.last ELSE 0])
          IN  Returned(execute_cycles(cpu, cycles, overflow_checks))
    /\ pre' = cpu
    /\ UNCHANGED <<init_cpu, overflow_checks>>

NextCycles == ExecuteCycles

SpecCycles == InitCycles /\ [][NextCycles]_vars

\* One call of execute_cycles taken iteration by iteration: calls holds the
\* call in progress, st = "loop" while its while-loop is running
InLoop == calls # <<>> /\ LastCall.st = "loop"

\* execute_cycles is entered: target_cycles = total_cycles + cycles
CyclesEnter ==
    /\ calls = <<>>
    /\ \E cycles \in CycleBudgets :
          calls' = <<[op |-> "execute_cycles", a |-> cycles, st |-> "loop",
                      target |-> cpu.total_cycles + cycles, v |-> 0]>>
    /\ UNCHANGED <<cpu, pre, init_cpu, overflow_checks>>

\* the loop condition holds: self.execute_next()?, an error leaving the call
CyclesIterate ==
    /\ InLoop
    /\ cpu.total_cycles <= LastCall.target
    /\ LET Stepped(r) ==
               /\ cpu' = r.c
               /\ calls' = IF r.st = "ok" THEN calls
                           ELSE <<[LastCall EXCEPT !.st = r.st]>>
       IN  Stepped(execute_next(cpu, overflow_checks))
    /\ pre' = cpu
    /\ UNCHANGED <<init_cpu, overflow_checks>>

\* the loop condition fails: Ok(total_cycles - target_cycles)
CyclesReturn ==
    /\ InLoop
    /\ cpu.total_cycles > LastCall.target
    /\ calls' = <<[LastCall EXCEPT !.st = "ok",
                                   !.v = cpu.total_cycles - LastCall.target]>>
    /\ UNCHANGED <<cpu, pre, init_cpu, overflow_checks>>

NextCyclesLoop == CyclesEnter \/ CyclesIterate \/ CyclesReturn

SpecCyclesLoop == InitCycles /\ [][NextCyclesLoop]_vars

\* Debug mode of main.rs: the simulation thread runs sim_handler and the main
\* thread redraws the inspector, both on the one Mutex<Cpu> and the one
\* Mutex<String> of the output.  The single record in calls holds where each
\* thread is and who holds each mutex; cpu is the value behind the CPU mutex.
MaxFrames == 2

Threads == calls[1]

\* the programs a debug run is started with (the BDOS stub is always
\* installed), one of them printing a string that has no '$' terminator
DebugPrograms ==
    {c \in BdosScenarios : c.subroutines # {}} \cup {Boot(BdosProgram(9, 64), TRUE)}

InitDebug ==
    /\ overflow_checks \in BOOLEAN
    /\ cpu = CpuNew
    /\ init_cpu = cpu
    /\ pre = cpu
    /\ calls = <<[op |-> "debug", sim |-> "start", ui |-> "frame",
                  cpu_mutex |-> "free", out_mutex |-> "free",
                  steps |-> 0, frames |-> 0]>>

\* sim_handler up to its loop: cpu_arc.lock() and, holding the guard, the
\* set-up of the machine
SimLockCpu ==
    /\ Threads.sim = "start"
    /\ Threads.cpu_mutex = "free"
    /\ cpu' \in DebugPrograms
    /\ calls' = <<[Threads EXCEPT !.sim = "loop", !.cpu_mutex = "sim"]>>
    /\ UNCHANGED <<pre, init_cpu, overflow_checks>>

\* one turn of `while cpu.is_running() { cpu.execute_next().unwrap(); }`; the
\* port callback locks the output string for each character it appends and
\* unlocks it again; a panic unwinds through the guard and poisons the mutex
SimStep ==
    /\ Threads.sim = "loop"
    /\ cpu.running
    /\ Threads.steps < MaxSteps
    /\ LET Stepped(r) ==
               /\ r.c.port_handler_calls # cpu.port_handler_calls
                     => Threads.out_mutex = "free"
               /\ cpu' = r.c
               /\ calls' = <<IF r.st = "ok"
                             THEN [Threads EXCEPT !.steps = @ + 1]
                             ELSE IF r.st = "hang"
                             THEN [Threads EXCEPT !.sim = "hung"]
                             ELSE [Threads EXCEPT !.sim = "panicked",
                                                  !.cpu_mutex = "poisoned"]>>
       IN  Stepped(execute_next(cpu, overflow_checks))
    /\ pre' = cpu
    /\ UNCHANGED <<init_cpu, overflow_checks>>

\* the loop ends, println!(), and the guard is dropped with the closure
SimExit ==
    /\ Threads.sim = "loop"
    /\ ~cpu.running
    /\ calls' = <<[Threads EXCEPT !.sim = "done", !.cpu_mutex = "free"]>>
    /\ UNCHANGED <<cpu, pre, init_cpu, overflow_checks>>

\* the inspector's closure, called for a frame: cpu_arc.lock().unwrap()
UiLockCpu ==
    /\ Threads.ui = "frame"
    /\ Threads.frames < MaxFrames
    /\ Threads.cpu_mutex = "free"
    /\ calls' = <<[Threads EXCEPT !.ui = "has_cpu", !.cpu_mutex = "ui"]>>
    /\ UNCHANGED <<cpu, pre, init_cpu, overflow_checks>>

\* cpu_arc.lock() returns the poison error and unwrap() panics
UiPoisoned ==
    /\ Threads.ui = "frame"
    /\ Threads.frames < MaxFrames
    /\ Threads.cpu_mutex = "poisoned"
    /\ calls' = <<[Threads EXCEPT !.ui = "panicked"]>>
    /\ UNCHANGED <<cpu, pre, init_cpu, overflow_checks>>

\* cpu_output_str.lock().unwrap()
UiLockOut ==
    /\ Threads.ui = "has_cpu"
    /\ Threads.out_mutex = "free"
    /\ calls' = <<[Threads EXCEPT !.ui = "has_both", !.out_mutex = "ui"]>>
    /\ UNCHANGED <<cpu, pre, init_cpu, overflow_checks>>

\* the two views are drawn and the closure returns, dropping both guards
UiDraw ==
    /\ Threads.ui = "has_both"
    /\ calls' = <<[Threads EXCEPT !.ui = "frame", !.frames = @ + 1,
                                  !.out_mutex = "free", !.cpu_mutex = "free"]>>
    /\ UNCHANGED <<cpu, pre, init_cpu, overflow_checks>>

NextDebug ==
    SimLockCpu \/ SimStep \/ SimExit \/ UiLockCpu \/ UiPoisoned \/ UiLockOut \/ UiDraw

SpecDebug == InitDebug /\ [][NextDebug]_vars

----------------------------------------------------------------------------
(* Properties of the ALU, the decoder, the register file and the memory *)

\* C1: for every pair of 8-bit values a, b the ALU ADD returns (a+b) mod 256
\* and leaves carry set iff a+b >= 256, auxiliary carry set iff
\* (a&0xF)+(b&0xF) >= 16, zero set iff the result is 0, sign equal to bit 7 of
\* the result and parity set iff the result has an even number of 1 bits.
C1_AddResultAndFlags ==
    calls # <<>> =>
        LET a == calls[1].a
            b == calls[1].b
            r == (a + b) % 256
            f == Flags(cpu)
        IN  /\ calls[1].st = "ok"
            /\ calls[1].v = Integer8(r)
            /\ Acc(cpu) = Integer8(r)
            /\ f.carry <=> (a + b >= 256)
            /\ f.aux_carry <=> ((a % 16) + (b % 16) >= 16)
            /\ f.zero <=> (r = 0)
            /\ f.sign <=> (r >= 128)
            /\ f.parity <=> (PopCount(r) % 2 = 0)

\* ADD of 0x2E and 0x6C has given 0x9A with S=1, Z=0, AC=1, P=1, C=0
C1_Witness ==
    /\ calls # <<>>
    /\ calls[1].a = 46 /\ calls[1].b = 108
    /\ Acc(cpu) = Integer8(154)
    /\ Flags(cpu) = from_bools(FALSE, TRUE, TRUE, FALSE, TRUE)

\* the bytes Instruction::decode rejects
UndefinedOpcodes == {8, 16, 24, 32, 40, 48, 56, 203, 217, 221, 237, 253}

\* C5: Instruction::decode is total over the 256 opcode bytes: each byte gives
\* an instruction or a decode error, never a panic, and the error is returned
\* exactly for 0x08, 0x10, 0x18, 0x20, 0x28, 0x30, 0x38, 0xCB, 0xD9, 0xDD,
\* 0xED and 0xFD.
C5_DecodeTotal ==
    calls # <<>> =>
        /\ calls[1].st \in {"ok", "err"}
        /\ calls[1].st = "err" <=> calls[1].a \in UndefinedOpcodes
        /\ calls[1].st = "ok" => calls[1].v.i # "None"

\* the byte 0xCB has been handed to the decoder and rejected
C5_Witness ==
    /\ calls # <<>>
    /\ calls[1].a = 203
    /\ calls[1].st = "err"

\* C6: from any 8-bit x and either carry, 8 successive RLC return x, 9
\* successive RAL return x and restore the carry; the same holds for the right
\* rotations; no rotation changes a flag other than carry.
C6_RotateRoundTrip ==
    calls # <<>> =>
        LET n == Len(calls)
            op == calls[1].op
        IN  /\ \A i \in 1..n : calls[i].st = "ok" /\ calls[i].op = op
            /\ LastCall.v = Acc(cpu)
            /\ \A k \in {"zero", "sign", "parity", "aux_carry"} :
                  Flags(cpu)[k] = Flags(init_cpu)[k]
            /\ (op \in {"RotateLeft", "RotateRight"} /\ n = 8) =>
                  Acc(cpu) = Acc(init_cpu)
            /\ (op \in {"RotateLeftThroughCarry", "RotateRightThroughCarry"} /\ n = 9) =>
                  /\ Acc(cpu) = Acc(init_cpu)
                  /\ Flags(cpu).carry = Flags(init_cpu).carry

\* nine RAL from 0xB5 with the carry set have restored both, having passed
\* through a different value and a clear carry
C6_Witness ==
    /\ Len(calls) = 9
    /\ calls[1].op = "RotateLeftThroughCarry"
    /\ Acc(init_cpu) = Integer8(181) /\ Flags(init_cpu).carry
    /\ calls[2].v = Integer8(215) /\ calls[3].v = Integer8(174)
    /\ Acc(cpu) = Integer8(181) /\ Flags(cpu).carry

\* the fields of the register file
RegisterFields == DOMAIN RegisterArrayNew

\* C7: write_reg(r, v) then read_reg(r) yields v for r in B..L and v in
\* 0..255; write_reg(p, v) then read_reg(p) yields v for p in BC, DE, HL and v
\* in 0..65535, and the components read v>>8 and v&0xFF; nothing outside the
\* register written (or the pair's two components) changes.
C7_RegisterRoundTrip ==
    calls # <<>> =>
        LET r == calls[1].a
            v == calls[1].b.v
            ra == cpu.reg_array
        IN  /\ calls[1].st = "ok"
            /\ RvEq(read_reg(ra, r), calls[1].b)
            /\ ToU16(read_reg(ra, r)) = v
            /\ r \in Registers8 =>
                  /\ read_reg(ra, r) = Integer8(v)
                  /\ \A k \in RegisterFields \ {Field8(r)} : ra[k] = pre.reg_array[k]
            /\ r \in Registers16 =>
                  LET hi == SubSeq(r, 1, 1)
                      lo == SubSeq(r, 2, 2)
                  IN  /\ read_reg(ra, hi) = Integer8(v \div 256)
                      /\ read_reg(ra, lo) = Integer8(v % 256)
                      /\ \A k \in RegisterFields \ {Field8(hi), Field8(lo)} :
                            ra[k] = pre.reg_array[k]

\* DE has been written with 0xABCD: D reads 0xAB, E reads 0xCD, B is untouched
C7_Witness ==
    /\ calls # <<>>
    /\ calls[1].a = "DE" /\ calls[1].b = Integer16(43981)
    /\ read_reg(cpu.reg_array, "D") = Integer8(171)
    /\ read_reg(cpu.reg_array, "E") = Integer8(205)
    /\ read_reg(cpu.reg_array, "B") = Integer8(17)

\* C8: an 8-bit write of v at a then an 8-bit read at a returns v, for every a
\* in 0..0xFFFF; a 16-bit write of w at a then a 16-bit read at a returns w,
\* for every a in 0..0xFFFE, with w&0xFF at a and w>>8 at a+1; no other memory
\* byte is changed.
C8_MemoryRoundTrip ==
    calls # <<>> =>
        LET a == calls[1].a
            value == calls[1].b
            wide == value.t = "Integer16"
            written == IF wide THEN {a, a + 1} ELSE {a}
        IN  (~wide \/ a <= 65534) =>
               /\ calls[1].st = "ok"
               /\ \A x \in (DOMAIN cpu.memory \cup DOMAIN init_cpu.memory) \ written :
                     MemGet(cpu.memory, x) = MemGet(init_cpu.memory, x)
               /\ IF wide
                  THEN /\ MemGet(cpu.memory, a) = value.v % 256
                       /\ MemGet(cpu.memory, a + 1) = value.v \div 256
                  ELSE MemGet(cpu.memory, a) = value.v
               /\ Len(calls) = 2 => calls[2].st = "ok" /\ calls[2].v = value

\* 0x1234 written at 0xFFFE has been read back, the neighbour at 0xFFFD kept
C8_Witness ==
    /\ Len(calls) = 2
    /\ calls[1].a = 65534 /\ calls[1].b = Integer16(4660)
    /\ calls[2].v = Integer16(4660)
    /\ MemGet(cpu.memory, 65534) = 52 /\ MemGet(cpu.memory, 65535) = 18
    /\ MemGet(cpu.memory, 65533) = 17

----------------------------------------------------------------------------
(* Properties of the whole machine *)

\* the bytes of memory from addr on are those of bytes
ProgramAt(c, addr, bytes) ==
    \A i \in 1..Len(bytes) : MemGet(c.memory, addr + i - 1) = bytes[i]

\* the run started at the program origin, running
Started == init_cpu.running /\ Pc(init_cpu) = ProgramOrigin

\* the run started with DAA at PC, A = 0x9B, C = 0 and AC = 0, and one
\* instruction has been stepped
DaaCase ==
    /\ Started
    /\ ProgramAt(init_cpu, ProgramOrigin, <<39>>)
    /\ Acc(init_cpu) = Integer8(155)
    /\ ~Flags(init_cpu).carry /\ ~Flags(init_cpu).aux_carry
    /\ Len(calls) = 1

\* C2 as stated: DAA (0x27) from A=0x9B, C=0, AC=0 leaves A=0x01, C=1, AC=1.
C2_DaaAsStated ==
    DaaCase =>
        /\ LastCall.st = "ok"
        /\ Acc(cpu) = Integer8(1)
        /\ Flags(cpu).carry
        /\ Flags(cpu).aux_carry

\* C2 amended: DAA (0x27) from A=0x9B, C=0, AC=0 leaves A=0x01 and C=1, and
\* AC=0: the flags are those of the second addition (0xA1 + 0x60), whose low
\* nibbles do not carry.
C2_DaaAmended ==
    DaaCase =>
        /\ LastCall.st = "ok"
        /\ Acc(cpu) = Integer8(1)
        /\ Flags(cpu).carry
        /\ ~Flags(cpu).aux_carry

\* DAA has been executed from A=0x9B, C=0, AC=0
C2_Witness ==
    /\ DaaCase
    /\ LastCall.st = "ok" /\ LastCall.v = 4
    /\ Pc(cpu) = ProgramOrigin + 1
    /\ Acc(cpu) = Integer8(1)

\* the run started with SUB B at PC and A = B = 0x3E, and one instruction has
\* been stepped
SubCase ==
    /\ Started
    /\ ProgramAt(init_cpu, ProgramOrigin, <<144>>)
    /\ Acc(init_cpu) = Integer8(62)
    /\ read_reg(init_cpu.reg_array, "B") = Integer8(62)
    /\ Len(calls) = 1

\* C3 as stated: SUB B (0x90) from A=B=0x3E leaves A=0x00 with Z=1, S=0, C=0,
\* AC=1 and P=1.
C3_SubAsStated ==
    SubCase =>
        /\ LastCall.st = "ok"
        /\ Acc(cpu) = Integer8(0)
        /\ Flags(cpu) = from_bools(TRUE, FALSE, TRUE, FALSE, TRUE)

\* C3 amended: SUB B (0x90) from A=B=0x3E leaves A=0x00 with Z=1, S=0, C=0,
\* P=1 and AC=0: the auxiliary carry of a subtraction is the borrow of the low
\* nibbles, and 0xE - 0xE does not borrow.
C3_SubAmended ==
    SubCase =>
        /\ LastCall.st = "ok"
        /\ Acc(cpu) = Integer8(0)
        /\ Flags(cpu) = from_bools(TRUE, FALSE, TRUE, FALSE, FALSE)

\* SUB B has been executed from A=B=0x3E
C3_Witness ==
    /\ SubCase
    /\ LastCall.st = "ok" /\ LastCall.v = 4
    /\ Acc(cpu) = Integer8(0)
    /\ read_reg(cpu.reg_array, "B") = Integer8(62)
    /\ Flags(cpu).zero

\* the run started with PUSH rp ; POP rp at PC, SP >= 2, and the two stack
\* bytes clear of the two instructions
PushPopCase ==
    /\ Started
    /\ \E op \in PushOpcodes : ProgramAt(init_cpu, ProgramOrigin, <<op, op - 4>>)
    /\ Sp(init_cpu) >= 2
    /\ {Sp(init_cpu) - 2, Sp(init_cpu) - 1} \cap {ProgramOrigin, ProgramOrigin + 1} = {}

\* C4: for rp in BC, DE, HL, PSW and SP >= 2 with the stack clear of the two
\* instructions, PUSH rp immediately followed by POP rp restores SP and leaves
\* every register, the accumulator and all five flags as before the PUSH.
C4_PushPopRoundTrip ==
    (PushPopCase /\ calls # <<>>) =>
        /\ calls[1].st = "ok"
        /\ Len(calls) >= 2 => calls[2].st = "ok"
        /\ Len(calls) = 2 =>
              /\ Sp(cpu) = Sp(init_cpu)
              /\ Pc(cpu) = ProgramOrigin + 2
              /\ \A r \in {"B", "C", "D", "E", "H", "L"} :
                    read_reg(cpu.reg_array, r) = read_reg(init_cpu.reg_array, r)
              /\ Acc(cpu) = Acc(init_cpu)
              /\ Flags(cpu) = Flags(init_cpu)

\* the run started with Ccc 0x1234 (here CZ) at PC, RET at 0x1234, Z = 1 and
\* SP = 0xFF00
CallRetCase ==
    /\ Started
    /\ ProgramAt(init_cpu, ProgramOrigin, <<204, 52, 18>>)
    /\ ProgramAt(init_cpu, 4660, <<201>>)
    /\ Flags(init_cpu).zero
    /\ Sp(init_cpu) = 65280

\* C9: with CC 34 12 at 0x0100, C9 at 0x1234, PC=0x0100, Z=1 and SP=0xFF00,
\* two successive execute_next calls consume 17 and then 10 cycles (27 in
\* total) and leave PC=0x0103 and SP=0xFF00.
C9_CallThenReturn ==
    (CallRetCase /\ calls # <<>>) =>
        /\ calls[1].st = "ok" /\ calls[1].v = 17
        /\ Len(calls) >= 2 => calls[2].st = "ok" /\ calls[2].v = 10
        /\ Len(calls) = 2 =>
              /\ cpu.total_cycles = 27
              /\ Pc(cpu) = 259
              /\ Sp(cpu) = 65280

\* the run started with the BDOS stub installed and MVI C,2 ; MVI E,e ;
\* CALL 0x0005 ; HLT at PC
PutCharCase(e) ==
    /\ Started
    /\ BDOS_ADDR \in init_cpu.subroutines
    /\ init_cpu.port_handler_fn # "None"
    /\ ProgramAt(init_cpu, ProgramOrigin, BdosProgram(2, e))

\* the step just taken was a CALL 0x0005 with C = 2 and the stub installed
PutCharStep ==
    /\ calls # <<>>
    /\ pre.running
    /\ ProgramAt(pre, Pc(pre), <<205, 5, 0>>)
    /\ BDOS_ADDR \in pre.subroutines
    /\ read_reg(pre.reg_array, "C") = Integer8(2)

\* C10: with the BDOS handler at 0x0005 and 0E 02 1E 41 CD 05 00 76 at 0x0100,
\* stepping until running is false ends after four instructions and the
\* callback has seen exactly the byte 0x41 on port 0; in general a CALL 0x0005
\* with C=2 emits exactly one port-0 write carrying the value of E.
C10_BdosPutChar ==
    /\ \A e \in U8 :
          PutCharCase(e) =>
              /\ \A i \in 1..Len(calls) : calls[i].st = "ok"
              /\ Len(calls) < 4 => cpu.running /\ (calls # <<>> => LastCall.v > 0)
              /\ Len(calls) < 3 => CpuOutputStr(cpu) = <<>>
              /\ Len(calls) >= 3 => CpuOutputStr(cpu) = <<e>>
              /\ Len(calls) >= 4 => ~cpu.running
    /\ PutCharStep =>
          /\ LastCall.st = "ok"
          /\ cpu.port_handler_calls =
                IF pre.port_handler_fn = "None" THEN pre.port_handler_calls
                ELSE Append(pre.port_handler_calls,
                            <<0, read_reg(pre.reg_array, "E").v>>)
          /\ read_port(cpu, Integer8(0)).v = read_reg(pre.reg_array, "E")
          /\ \A q \in DOMAIN cpu.ports \cup DOMAIN pre.ports :
                q # 0 => MemGet(cpu.ports, q) = MemGet(pre.ports, q)

\* the four instructions of 0E 02 1E 41 CD 05 00 76 have run: the machine has
\* halted and the callback has seen 'A'
C10_Witness ==
    /\ PutCharCase(65)
    /\ Len(calls) = 4
    /\ ~cpu.running
    /\ pre.running
    /\ CpuOutputStr(cpu) = <<65>>
    /\ cpu.port_handler_calls = <<<<0, 65>>>>

\* the step just taken started, running, at an opcode byte whose operand bytes
\* (n of them) lie below the top of memory
StepAt(opcode, n) ==
    /\ calls # <<>>
    /\ pre.running
    /\ Pc(pre) + n <= 65535
    /\ MemGet(pre.memory, Pc(pre)) = opcode

\* the 16-bit operand of the instruction the step just taken started at
Operand16 == MemGet(pre.memory, Pc(pre) + 1) + 256 * MemGet(pre.memory, Pc(pre) + 2)

\* C11: from any running state JMP (0xC3) with the operand 0x0000 sets running
\* to false; JMP with any other operand a16 sets PC to a16 and leaves running
\* true.
C11_JumpOrStop ==
    StepAt(195, 2) =>
        /\ LastCall.st = "ok"
        /\ LastCall.v = 10
        /\ IF Operand16 = 0
           THEN ~cpu.running
           ELSE cpu.running /\ Pc(cpu) = Operand16

\* JMP 0x0000 at 0xFFFD, in a machine with all flags set, has stopped it with
\* PC past the operand
C11_Witness ==
    /\ StepAt(195, 2)
    /\ Pc(pre) = 65533
    /\ Operand16 = 0
    /\ Flags(pre).carry
    /\ ~cpu.running
    /\ Pc(cpu) = 0

\* C12: when CALL a16 (0xCD) executes and a handler is registered for a16, the
\* handler is invoked exactly once, the engine writes nothing to the stack and
\* does not change SP, and PC ends at the address following the operand; when
\* no handler is registered, the address following the operand is pushed and
\* PC becomes a16.
C12_CallHandlerOrPush ==
    StepAt(205, 2) =>
        LET ret == (Pc(pre) + 3) % 65536
            handled == bdos(pre, overflow_checks)
            new_sp == (Sp(pre) + 65534) % 65536
        IN  IF Operand16 \in pre.subroutines
            THEN handled.st = "ok" =>
                    /\ LastCall.st = "ok"
                    /\ cpu.port_handler_calls = handled.c.port_handler_calls
                    /\ cpu.ports = handled.c.ports
                    /\ cpu.memory = pre.memory
                    /\ Sp(cpu) = Sp(pre)
                    /\ Pc(cpu) = ret
            ELSE /\ LastCall.st = "ok"
                 /\ Sp(cpu) = new_sp
                 /\ MemGet(cpu.memory, new_sp) = ret % 256
                 /\ MemGet(cpu.memory, new_sp + 1) = ret \div 256
                 /\ Pc(cpu) = Operand16

\* C13: load_to_memory(bytes, origin) succeeds, setting memory[origin+i] to
\* bytes[i] for every i and changing no other byte, if and only if
\* origin + len(bytes) <= 0x10000; when origin + len(bytes) exceeds 0x10000 it
\* returns an error rather than panicking or wrapping around to low addresses.
C13_LoadWithinMemory ==
    calls # <<>> =>
        LET origin == calls[1].a
            bytes == calls[1].b
            loaded == {origin + i - 1 : i \in 1..Len(bytes)}
        IN  IF origin + Len(bytes) <= 65536
            THEN /\ calls[1].st = "ok"
                 /\ \A i \in 1..Len(bytes) :
                       MemGet(cpu.memory, origin + i - 1) = bytes[i]
                 /\ \A x \in (DOMAIN cpu.memory \cup DOMAIN pre.memory) \ loaded :
                       MemGet(cpu.memory, x) = MemGet(pre.memory, x)
            ELSE calls[1].st = "err"

\* C14: when execute_cycles(n) returns Ok(o) from a state with total_cycles = t,
\* the new total_cycles equals t + n + o, with o >= 1 and o no larger than the
\* cost of the last instruction executed.
C14_CyclesOvershoot ==
    (calls # <<>> /\ LastCall.st = "ok") =>
        /\ cpu.total_cycles = pre.total_cycles + LastCall.a + LastCall.v
        /\ LastCall.v >= 1
        /\ LastCall.v <= LastCall.last
        /\ \E op \in U8 : LastCall.last \in {BaseCycles(op), BaseCycles(op) + 6}

\* execute_cycles(10) on MVI C,2 ; MVI E,e ; ... has run the two MVI (7 cycles
\* each) and returned the overshoot 4
C14_Witness ==
    /\ Len(calls) = 1
    /\ ProgramAt(init_cpu, ProgramOrigin, <<14, 2, 30>>)
    /\ LastCall.st = "ok" /\ LastCall.a = 10
    /\ LastCall.v = 4 /\ LastCall.last = 7
    /\ cpu.total_cycles = 14
    /\ Pc(cpu) = ProgramOrigin + 4

\* C15: if running is false, execute_next returns 0 cycles and changes no
\* register, flag, memory byte, port or total_cycles; so once running is false
\* (after HLT or JMP 0) it stays false under any further execute_next.
C15_StoppedStaysStopped ==
    (calls # <<>> /\ ~pre.running) =>
        /\ LastCall.st = "ok"
        /\ LastCall.v = 0
        /\ cpu = pre
        /\ ~cpu.running

\* the machine halted by the HLT of the BDOS program has been stepped once
\* more: nothing moved
C15_Witness ==
    /\ PutCharCase(65)
    /\ Len(calls) = 5
    /\ calls[4].v = 7 /\ calls[5].v = 0
    /\ ~pre.running
    /\ cpu = pre
    /\ cpu.total_cycles = 38

\* C16: a 16-bit memory read or write at address 0xFFFF returns an error and
\* leaves memory unchanged; every 8-bit access at any address and every 16-bit
\* access at an address in 0..0xFFFE succeeds.
C16_TopOfMemory ==
    calls # <<>> =>
        LET a == calls[1].a
            wide == IF calls[1].op = "write" THEN calls[1].b.t # "Integer8"
                    ELSE calls[1].b = "Integer16"
        IN  /\ (wide /\ a = 65535) => (calls[1].st = "err" /\ cpu.memory = pre.memory)
            /\ (~wide \/ a <= 65534) => calls[1].st = "ok"
            /\ calls[1].op = "read" => cpu.memory = pre.memory

\* a 16-bit read at 0xFFFF has been refused
C16_Witness ==
    /\ calls # <<>>
    /\ calls[1].op = "read" /\ calls[1].a = 65535 /\ calls[1].b = "Integer16"
    /\ calls[1].st = "err"
    /\ MemGet(cpu.memory, 65535) = 19

\* C17: write_reg(reg, value) returns an error and leaves the register file
\* unchanged whenever the value's width does not match the register's width
\* (an 8-bit value written to a 16-bit register, a 16-bit integer or an 8-bit
\* pair written to an 8-bit register), and succeeds when a 16-bit integer or
\* an 8-bit pair is written to a 16-bit register.
C17_WidthChecked ==
    calls # <<>> =>
        LET wide_reg == calls[1].a \in Registers16
            wide_val == calls[1].b.t # "Integer8"
        IN  /\ wide_reg # wide_val =>
                  (calls[1].st = "err" /\ cpu.reg_array = pre.reg_array)
            /\ (wide_reg /\ wide_val) => calls[1].st = "ok"

\* C18: when execute_next returns a decode error (the byte at PC is not a
\* defined opcode), PC, SP, every register, the accumulator, the flags, memory,
\* ports, running and total_cycles all equal their values before the call.
C18_DecodeErrorKeepsState ==
    (calls # <<>> /\ pre.running /\ MemGet(pre.memory, Pc(pre)) \in UndefinedOpcodes) =>
        /\ LastCall.st = "err"
        /\ cpu = pre

\* the eight condition codes NZ, Z, NC, C, PO, PE, P, M over the flags f
ConditionHolds(ccc, f) ==
    CASE ccc = 0 -> ~f.zero   [] ccc = 1 -> f.zero
      [] ccc = 2 -> ~f.carry  [] ccc = 3 -> f.carry
      [] ccc = 4 -> ~f.parity [] ccc = 5 -> f.parity
      [] ccc = 6 -> ~f.sign   [] ccc = 7 -> f.sign

\* the opcode byte is a conditional call (11ccc100) or a conditional return
\* (11ccc000) whose condition holds for the flags f
TakenConditional(opcode, f) ==
    /\ opcode >= 192
    /\ opcode % 8 \in {0, 4}
    /\ ConditionHolds((opcode \div 8) % 8, f)

\* C19: every execute_next that returns Ok(c) while running has c > 0 and
\* increases total_cycles by exactly c, where c is the table entry of the
\* fetched opcode plus 6 exactly when the instruction is a conditional call or
\* return whose condition holds; total_cycles never decreases and is unchanged
\* by a step that returns an error.
C19_CyclesCounted ==
    calls # <<>> =>
        LET opcode == MemGet(pre.memory, Pc(pre))
        IN  /\ cpu.total_cycles >= pre.total_cycles
            /\ LastCall.st # "ok" => cpu.total_cycles = pre.total_cycles
            /\ (pre.running /\ LastCall.st = "ok") =>
                  /\ LastCall.v > 0
                  /\ cpu.total_cycles = pre.total_cycles + LastCall.v
                  /\ LastCall.v = BaseCycles(opcode)
                                  + IF TakenConditional(opcode, Flags(pre)) THEN 6 ELSE 0

\* CZ 0x1234 taken and the RET behind it have been counted as 17 and 10
C19_Witness ==
    /\ CallRetCase
    /\ Len(calls) = 2
    /\ calls[1].st = "ok" /\ calls[1].v = 17
    /\ calls[2].st = "ok" /\ calls[2].v = 10
    /\ cpu.total_cycles = 27

\* the byte S Z 0 AC 0 P 1 C of the flags f
StatusByte(f) ==
    128 * bool_u8(f.sign) + 64 * bool_u8(f.zero) + 16 * bool_u8(f.aux_carry)
    + 4 * bool_u8(f.parity) + 2 + bool_u8(f.carry)

\* C20: after every execute_next that completes successfully, the PSW pair
\* read from the register file equals (A << 8) | F, where A is the ALU
\* accumulator and F is the byte S Z 0 AC 0 P 1 C of the ALU's five flags.
C20_StatusWordInSync ==
    (calls # <<>> /\ LastCall.st = "ok") =>
        /\ Acc(cpu).t = "Integer8"
        /\ read_reg(cpu.reg_array, "PSW") = Integer8Pair(Acc(cpu).v, StatusByte(Flags(cpu)))
        /\ ToU16(read_reg(cpu.reg_array, "PSW")) = 256 * Acc(cpu).v + StatusByte(Flags(cpu))

\* after SUB B from A = B = 0x3E the PSW pair reads 0x0046 (Z, P and bit 1),
\* having read 0x0000 before the step
C20_Witness ==
    /\ SubCase
    /\ LastCall.st = "ok"
    /\ read_reg(pre.reg_array, "PSW") = Integer8Pair(0, 0)
    /\ read_reg(cpu.reg_array, "PSW") = Integer8Pair(0, 70)
    /\ Flags(cpu).zero /\ Flags(cpu).parity

\* the low byte (F) of the PSW pair read from the register file of c
StatusRegister(c) == read_reg(c.reg_array, "PSW").l

\* C21: in every state the host can observe (after Cpu::new(), after loading a
\* program, after every execute_next) the F byte of the PSW read from the
\* register file has bit 1 equal to 1 and bits 3 and 5 equal to 0.
C21_FixedStatusBits ==
    /\ Bit(StatusRegister(cpu), 1) = 1
    /\ Bit(StatusRegister(cpu), 3) = 0
    /\ Bit(StatusRegister(cpu), 5) = 0

----------------------------------------------------------------------------
(* Properties of the ALU's arithmetic *)

\* the operation just evaluated on the ALU alone is op
Evaluated(op) == calls # <<>> /\ LastCall.op = op

\* C22: for every 8-bit a, b and carry-in cin the ALU ADC returns
\* (a+b+cin) mod 256 with carry set iff a+b+cin >= 256, auxiliary carry set iff
\* (a&0xF)+(b&0xF)+cin > 0xF, and Z, S, P derived from the result.
C22_AdcResultAndFlags ==
    Evaluated("AddCarry") =>
        LET a == LastCall.a
            b == LastCall.b
            cin == bool_u8(Flags(pre).carry)
            result == (a + b + cin) % 256
        IN  /\ LastCall.st = "ok"
            /\ Acc(cpu) = Integer8(result)
            /\ Flags(cpu).carry <=> (a + b + cin >= 256)
            /\ Flags(cpu).aux_carry <=> ((a % 16) + (b % 16) + cin > 15)
            /\ Flags(cpu).zero <=> (result = 0)
            /\ Flags(cpu).sign <=> (result >= 128)
            /\ Flags(cpu).parity <=> (PopCount(result) % 2 = 0)

\* C23: for every 8-bit a, b and borrow-in cin (0 for SUB and CMP, the carry
\* flag for SBB) the ALU subtraction returns (a-b-cin) mod 256 with carry set
\* iff a < b+cin, auxiliary carry set iff (a&0xF) < (b&0xF)+cin, and Z, S, P
\* derived from the result; CMP sets the same flags as SUB and leaves the
\* accumulator unchanged.
C23_SubResultAndFlags ==
    (calls # <<>> /\ LastCall.op \in {"Sub", "SubBorrow", "Comparison"}) =>
        LET a == LastCall.a
            b == LastCall.b
            cin == IF LastCall.op = "SubBorrow" THEN bool_u8(Flags(pre).carry) ELSE 0
            result == (a - b - cin) % 256
        IN  /\ LastCall.st = "ok"
            /\ IF LastCall.op = "Comparison"
               THEN Acc(cpu) = Acc(pre) /\ ~LastCall.some
               ELSE Acc(cpu) = Integer8(result)
            /\ Flags(cpu).carry <=> (a < b + cin)
            /\ Flags(cpu).aux_carry <=> ((a % 16) < (b % 16) + cin)
            /\ Flags(cpu).zero <=> (result = 0)
            /\ Flags(cpu).sign <=> (result >= 128)
            /\ Flags(cpu).parity <=> (PopCount(result) % 2 = 0)

\* two-digit BCD bytes and their values
IsBcd(x) == x % 16 <= 9 /\ x \div 16 <= 9
BcdValue(x) == 10 * (x \div 16) + (x % 16)
BcdByte(n) == 16 * (n \div 10) + (n % 10)

\* ADD(a, b) and then DAA have been evaluated, a and b being valid BCD bytes
BcdAddCase ==
    /\ Len(calls) = 2
    /\ calls[1].op = "Add" /\ calls[2].op = "DecimalAdjust"
    /\ IsBcd(calls[1].a) /\ IsBcd(calls[1].b)

\* what the two steps of DAA make of the accumulator x, the carry cy and the
\* auxiliary carry ac: 6 is added when the low nibble is > 9 or ac is set, then
\* 0x60 when the high nibble is > 9 or cy is set
DaaSteps(x, cy, ac) ==
    LET step1 == IF x % 16 > 9 \/ ac THEN (x + 6) % 256 ELSE x
    IN  IF step1 \div 16 > 9 \/ cy THEN (step1 + 96) % 256 ELSE step1

\* C24: for every a, b whose nibbles are all <= 9, ADD(a, b) followed by DAA
\* leaves A equal to the BCD encoding of (dec(a)+dec(b)) mod 100 and carry set
\* iff dec(a)+dec(b) >= 100; and for every A, C, AC, DAA adds 6 when
\* (A&0xF) > 9 or AC is set and then adds 0x60 when the high nibble is > 9 or C
\* is set.
C24_DaaBcdSum ==
    /\ BcdAddCase =>
          LET sum == BcdValue(calls[1].a) + BcdValue(calls[1].b)
          IN  /\ LastCall.st = "ok"
              /\ Acc(cpu) = Integer8(BcdByte(sum % 100))
              /\ Flags(cpu).carry <=> (sum >= 100)
    /\ Evaluated("DecimalAdjust") =>
          /\ LastCall.st = "ok"
          /\ Acc(cpu) = Integer8(DaaSteps(Acc(pre).v, Flags(pre).carry,
                                          Flags(pre).aux_carry))

\* step 2 of DAA applies to the accumulator x with carry cy and auxiliary carry
\* ac: after step 1 the high nibble is > 9, or cy is set
DaaSecondStep(x, cy, ac) ==
    LET step1 == IF x % 16 > 9 \/ ac THEN (x + 6) % 256 ELSE x
    IN  step1 \div 16 > 9 \/ cy

\* C25: the carry flag is sticky across DAA: for every A and AC, if step 2 of
\* DAA applies (high nibble > 9 or C set) then C is set when DAA ends; a carry
\* that is set when DAA begins is never cleared by DAA.
C25_DaaCarrySticky ==
    Evaluated("DecimalAdjust") =>
        /\ DaaSecondStep(Acc(pre).v, Flags(pre).carry, Flags(pre).aux_carry)
              => Flags(cpu).carry
        /\ Flags(pre).carry => Flags(cpu).carry

\* C26: for every 8-bit x and either value of the carry flag, the ALU 8-bit
\* increment and decrement return (x+1) mod 256 and (x-1) mod 256, leave the
\* carry flag exactly as it was before the operation, and update Z, S, P and
\* AC from the result (AC being the carry out of, or the borrow into, the low
\* nibble).
C26_IncDecKeepsCarry ==
    (calls # <<>> /\ LastCall.op \in IncDecOps) =>
        LET x == LastCall.a
            result == IF LastCall.op = "Increment" THEN (x + 1) % 256
                      ELSE (x + 255) % 256
        IN  /\ LastCall.st = "ok"
            /\ Acc(cpu) = Integer8(result)
            /\ Flags(cpu).carry = Flags(pre).carry
            /\ Flags(cpu).zero <=> (result = 0)
            /\ Flags(cpu).sign <=> (result >= 128)
            /\ Flags(cpu).parity <=> (PopCount(result) % 2 = 0)
            /\ Flags(cpu).aux_carry <=>
                  IF LastCall.op = "Increment" THEN x % 16 = 15 ELSE x % 16 = 0

\* incrementing 0xFF with the carry clear has given 0x00 with Z and AC set and
\* the carry still clear
C26_Witness ==
    /\ Evaluated("Increment")
    /\ LastCall.a = 255
    /\ ~Flags(pre).carry
    /\ Acc(cpu) = Integer8(0)
    /\ Flags(cpu).zero /\ Flags(cpu).aux_carry
    /\ ~Flags(cpu).carry

----------------------------------------------------------------------------
(* Properties of single instructions *)

\* the flags of f other than the carry
OtherFlags(f) == <<f.zero, f.sign, f.parity, f.aux_carry>>

\* C27: opcode 0x07 (RLC) sets C to the old bit 7 of A and A to
\* (A<<1)|old bit 7; 0x0F (RRC) sets C to the old bit 0 and A to
\* (A>>1)|(old bit 0 << 7); 0x17 (RAL) sets A to (A<<1)|old C and C to the old
\* bit 7; 0x1F (RAR) sets A to (A>>1)|(old C << 7) and C to the old bit 0;
\* Z, S, P and AC are unchanged by all four.
C27_RotateOpcodes ==
    LET a == Acc(pre).v
        c == bool_u8(Flags(pre).carry)
        Rotated(result, carry) ==
            /\ LastCall.st = "ok"
            /\ Acc(cpu) = Integer8(result)
            /\ Flags(cpu).carry <=> (carry = 1)
            /\ OtherFlags(Flags(cpu)) = OtherFlags(Flags(pre))
    IN  /\ StepAt(7, 0) => Rotated(((2 * a) % 256) + Bit(a, 7), Bit(a, 7))
        /\ StepAt(15, 0) => Rotated((a \div 2) + 128 * Bit(a, 0), Bit(a, 0))
        /\ StepAt(23, 0) => Rotated(((2 * a) % 256) + c, Bit(a, 7))
        /\ StepAt(31, 0) => Rotated((a \div 2) + 128 * c, Bit(a, 0))

\* the 16-bit value of the register pair rp of c
Pair(c, rp) == ToU16(read_reg(c.reg_array, rp))

\* the register pair DAD's opcode names
DadPair(opcode) ==
    CASE opcode = 9 -> "BC" [] opcode = 25 -> "DE" [] opcode = 41 -> "HL"
      [] opcode = 57 -> "SP"

\* C28: for every rp in {BC, DE, HL, SP} and all register values DAD rp
\* completes with HL = (HL + rp) mod 65536 and with the carry flag set if the
\* 16-bit sum overflowed and cleared if it did not; Z, S, P, AC and every
\* register other than H and L are unchanged.
C28_DoubleAdd ==
    \A opcode \in {9, 25, 41, 57} :
        StepAt(opcode, 0) =>
            LET sum == Pair(pre, "HL") + Pair(pre, DadPair(opcode))
            IN  /\ LastCall.st = "ok"
                /\ Pair(cpu, "HL") = sum % 65536
                /\ Flags(cpu).carry <=> (sum > 65535)
                /\ OtherFlags(Flags(cpu)) = OtherFlags(Flags(pre))
                /\ Acc(cpu) = Acc(pre)
                /\ \A r \in {"BC", "DE", "SP"} : Pair(cpu, r) = Pair(pre, r)

\* the registers and flags an instruction that only moves a byte between A and
\* memory leaves alone
MoveFrame ==
    /\ \A r \in {"BC", "DE", "HL", "SP"} : Pair(cpu, r) = Pair(pre, r)
    /\ Flags(cpu) = Flags(pre)
    /\ cpu.running = pre.running
    /\ Pc(cpu) = Pc(pre) + 1

\* C29: for rp in {BC, DE}, STAX rp (0x02, 0x12) writes the accumulator to the
\* single memory byte at address rp and changes no other memory byte and no
\* register; LDAX rp (0x0A, 0x1A) loads A from the byte at address rp and
\* changes nothing else.
C29_IndirectAccumulator ==
    /\ \A opcode \in {2, 18} :
          StepAt(opcode, 0) =>
              /\ LastCall.st = "ok"
              /\ cpu.memory = MemSet(pre.memory,
                                     Pair(pre, IF opcode = 2 THEN "BC" ELSE "DE"),
                                     Acc(pre).v)
              /\ Acc(cpu) = Acc(pre)
              /\ MoveFrame
    /\ \A opcode \in {10, 26} :
          StepAt(opcode, 0) =>
              /\ LastCall.st = "ok"
              /\ Acc(cpu) = Integer8(MemGet(pre.memory,
                                            Pair(pre, IF opcode = 10 THEN "BC" ELSE "DE")))
              /\ cpu.memory = pre.memory
              /\ MoveFrame

\* the vector number n of the opcode 11 nnn 111
ResetNumber(opcode) == (opcode - 199) \div 8

\* C30: for every n in 0..7, RST n pushes the current PC (the address of the
\* byte after the RST opcode) -- SP decreases by 2 and the two bytes at the new
\* SP hold that PC little-endian -- and sets PC to 8*n, so that a RET executed
\* next returns to the instruction after the RST with SP restored.
C30_ResetPushesPc ==
    \A n \in 0..7 :
        /\ StepAt(199 + 8 * n, 0) =>
              /\ LastCall.st = "ok"
              /\ Sp(cpu) = (Sp(pre) + 65534) % 65536
              /\ MemGet(cpu.memory, Sp(cpu)) = (Pc(pre) + 1) % 256
              /\ MemGet(cpu.memory, (Sp(cpu) + 1) % 65536) = (Pc(pre) + 1) \div 256
              /\ Pc(cpu) = 8 * n
        /\ ( /\ Len(calls) = 2
             /\ Started
             /\ ProgramAt(init_cpu, ProgramOrigin, <<199 + 8 * n>>)
             /\ ProgramAt(init_cpu, 8 * n, <<201>>) ) =>
              /\ LastCall.st = "ok"
              /\ Pc(cpu) = ProgramOrigin + 1
              /\ Sp(cpu) = Sp(init_cpu)

\* the registers B, C, D, E and the accumulator, the flags and memory are as
\* before the step
RestUnchanged ==
    /\ Pair(cpu, "BC") = Pair(pre, "BC")
    /\ Pair(cpu, "DE") = Pair(pre, "DE")
    /\ Acc(cpu) = Acc(pre)
    /\ Flags(cpu) = Flags(pre)
    /\ cpu.memory = pre.memory

\* C31: PCHL (0xE9) sets PC to the value of HL and leaves HL, every other
\* register, SP, the flags and memory unchanged; SPHL (0xF9) likewise sets SP to
\* HL and leaves HL unchanged.
C31_PchlSphl ==
    /\ StepAt(233, 0) =>
          /\ LastCall.st = "ok"
          /\ Pc(cpu) = Pair(pre, "HL")
          /\ Pair(cpu, "HL") = Pair(pre, "HL")
          /\ Sp(cpu) = Sp(pre)
          /\ RestUnchanged
    /\ StepAt(249, 0) =>
          /\ LastCall.st = "ok"
          /\ Sp(cpu) = Pair(pre, "HL")
          /\ Pair(cpu, "HL") = Pair(pre, "HL")
          /\ Pc(cpu) = Pc(pre) + 1
          /\ RestUnchanged

\* the conditional calls 11 ccc 100
ConditionalCalls == {196 + 8 * ccc : ccc \in 0..7}

\* what execute_next makes of the state before the step when the opcode byte
\* at PC is CALL (0xCD) instead of the one that was there
AsCall == execute_next([pre EXCEPT !.memory = MemSet(pre.memory, Pc(pre), 205)],
                       overflow_checks)

\* the step ended as r did: the same outcome and, when it completed, the same
\* PC, SP, registers, memory (the opcode byte apart) and handler invocations
SameEffect(r, opcode) ==
    /\ LastCall.st = r.st
    /\ r.st = "ok" =>
          /\ Pc(cpu) = Pc(r.c)
          /\ Sp(cpu) = Sp(r.c)
          /\ \A rp \in {"BC", "DE", "HL"} : Pair(cpu, rp) = Pair(r.c, rp)
          /\ Acc(cpu) = Acc(r.c)
          /\ Flags(cpu) = Flags(r.c)
          /\ cpu.memory = MemSet(r.c.memory, Pc(pre), opcode)
          /\ cpu.port_handler_calls = r.c.port_handler_calls
          /\ cpu.ports = r.c.ports
          /\ cpu.running = r.c.running

\* C32: for every condition cc that holds and every target a16, Ccc a16 has the
\* same effect on PC, SP, stack memory, registers and host handler invocation as
\* CALL a16 from the same state, also when a subroutine handler is registered
\* for a16, differing only in the cycle count; when cc does not hold, Ccc only
\* advances PC past the two operand bytes.
C32_ConditionalCallAsCall ==
    \A opcode \in ConditionalCalls :
        StepAt(opcode, 2) =>
            IF TakenConditional(opcode, Flags(pre))
            THEN SameEffect(AsCall, opcode)
            ELSE /\ LastCall.st = "ok"
                 /\ Pc(cpu) = Pc(pre) + 3
                 /\ Sp(cpu) = Sp(pre)
                 /\ Pair(cpu, "HL") = Pair(pre, "HL")
                 /\ RestUnchanged
                 /\ cpu.port_handler_calls = pre.port_handler_calls

\* the run started with POP PSW ; PUSH PSW at the program origin
PopPswCase ==
    /\ Started
    /\ ProgramAt(init_cpu, ProgramOrigin, <<241, 245>>)

\* C33: for every byte f and byte a with memory[SP] = f and memory[SP+1] = a,
\* POP PSW sets the accumulator to a, sets S, Z, AC, P, C to bits 7, 6, 4, 2, 0
\* of f and increases SP by 2; a PUSH PSW executed next stores a as the high
\* byte and (f & 0xD5) | 0x02 as the F byte.
C33_PopPushPsw ==
    LET f == MemGet(init_cpu.memory, Sp(init_cpu))
        a == MemGet(init_cpu.memory, Sp(init_cpu) + 1)
    IN  /\ (PopPswCase /\ Len(calls) = 1) =>
              /\ LastCall.st = "ok"
              /\ Acc(cpu) = Integer8(a)
              /\ Flags(cpu) = from_bools(Bit(f, 6) = 1, Bit(f, 7) = 1, Bit(f, 2) = 1,
                                         Bit(f, 0) = 1, Bit(f, 4) = 1)
              /\ Sp(cpu) = Sp(init_cpu) + 2
        /\ (PopPswCase /\ Len(calls) = 2) =>
              /\ LastCall.st = "ok"
              /\ Sp(cpu) = Sp(init_cpu)
              /\ MemGet(cpu.memory, Sp(cpu) + 1) = a
              /\ MemGet(cpu.memory, Sp(cpu)) = BitOr(BitAnd(f, 213), 2)

\* the flags Z, S, P, AC an 8-bit increment (or decrement) of x leaves, as
\* Alu::inc_dec computes them
IncDecFlags(x, increment) ==
    LET result == IF increment THEN (x + 1) % 256 ELSE (x + 255) % 256
    IN  <<result = 0, result >= 128, PopCount(result) % 2 = 0,
          IF increment THEN x % 16 = 15 ELSE x % 16 = 0>>

\* C34: INR M (0x34) or DCR M (0x35) replaces the byte at address HL with
\* (byte+1) mod 256 or (byte-1) mod 256 for every byte value without error,
\* updates Z, S, P and AC from the result exactly as INR/DCR on a register
\* does, and leaves the carry flag and the accumulator unchanged.
C34_IncDecMemory ==
    \A opcode \in {52, 53} :
        StepAt(opcode, 0) =>
            LET hl == Pair(pre, "HL")
                x == MemGet(pre.memory, hl)
            IN  /\ LastCall.st = "ok"
                /\ cpu.memory = MemSet(pre.memory, hl,
                                       IF opcode = 52 THEN (x + 1) % 256
                                       ELSE (x + 255) % 256)
                /\ OtherFlags(Flags(cpu)) = IncDecFlags(x, opcode = 52)
                /\ Flags(cpu).carry = Flags(pre).carry
                /\ Acc(cpu) = Acc(pre)

\* the register pair INX / DCX's opcode names (00 rp0 011 / 00 rp1 011)
IncDecPair(opcode) ==
    CASE opcode \div 16 = 0 -> "BC" [] opcode \div 16 = 1 -> "DE"
      [] opcode \div 16 = 2 -> "HL" [] opcode \div 16 = 3 -> "SP"

\* C35: for every rp in {BC, DE, HL, SP} and every 16-bit value of rp, INX rp
\* sets rp to (rp+1) mod 65536 and DCX rp sets rp to (rp-1) mod 65536, the
\* wraps from 0xFFFF to 0x0000 and from 0x0000 to 0xFFFF included, without
\* returning an error or aborting and without changing any of the five flags.
C35_IncDecPair ==
    \A opcode \in {3, 19, 35, 51, 11, 27, 43, 59} :
        StepAt(opcode, 0) =>
            LET rp == IncDecPair(opcode)
            IN  /\ LastCall.st = "ok"
                /\ Pair(cpu, rp) = IF opcode % 16 = 3
                                   THEN (Pair(pre, rp) + 1) % 65536
                                   ELSE (Pair(pre, rp) + 65535) % 65536
                /\ Flags(cpu) = Flags(pre)

\* the step just taken was a PUSH, a CALL or a Ccc whose condition held
PushingStep ==
    \/ \E opcode \in PushOpcodes : StepAt(opcode, 0)
    \/ StepAt(205, 2)
    \/ \E opcode \in ConditionalCalls :
          StepAt(opcode, 2) /\ TakenConditional(opcode, Flags(pre))

\* C36: when PUSH, CALL or a taken Ccc fails with an address error because its
\* 16-bit store would start at 0xFFFF (SP = 1 before the step), the step
\* returns the error and SP, PC and memory all equal their values before the
\* step.
C36_FailedPushKeepsState ==
    (PushingStep /\ Sp(pre) = 1 /\ LastCall.st = "err") =>
        /\ Sp(cpu) = Sp(pre)
        /\ Pc(cpu) = Pc(pre)
        /\ cpu.memory = pre.memory

\* the register INR r / DCR r's opcode 00 ddd 10x names, for ddd in 0..5
IncDecRegister(opcode) ==
    CASE opcode \div 8 = 0 -> "B" [] opcode \div 8 = 1 -> "C"
      [] opcode \div 8 = 2 -> "D" [] opcode \div 8 = 3 -> "E"
      [] opcode \div 8 = 4 -> "H" [] opcode \div 8 = 5 -> "L"

\* INR r and DCR r for r in B, C, D, E, H, L
IncDecRegisterOpcodes == {8 * ddd + 4 : ddd \in 0..5} \cup {8 * ddd + 5 : ddd \in 0..5}

\* C37: for every register r in {B, C, D, E, H, L}, INR r or DCR r changes only
\* r and the flags Z, S, P, AC: the accumulator A, the carry flag, every other
\* register, SP and memory are unchanged.
C37_IncDecRegisterFrame ==
    \A opcode \in IncDecRegisterOpcodes :
        StepAt(opcode, 0) =>
            LET r == IncDecRegister(opcode)
                x == read_reg(pre.reg_array, r).v
            IN  /\ LastCall.st = "ok"
                /\ read_reg(cpu.reg_array, r).v =
                      IF opcode % 8 = 4 THEN (x + 1) % 256 ELSE (x + 255) % 256
                /\ OtherFlags(Flags(cpu)) = IncDecFlags(x, opcode % 8 = 4)
                /\ Acc(cpu) = Acc(pre)
                /\ Flags(cpu).carry = Flags(pre).carry
                /\ \A q \in Registers8 \ {r, "W", "Z"} :
                      read_reg(cpu.reg_array, q) = read_reg(pre.reg_array, q)
                /\ Sp(cpu) = Sp(pre)
                /\ cpu.memory = pre.memory

----------------------------------------------------------------------------
(* Termination *)

\* the loop of execute_cycles cannot leave: its condition holds and the
\* iteration's execute_next returns Ok having changed nothing, so the same
\* iteration repeats without end
LoopStuck ==
    /\ InLoop
    /\ cpu.total_cycles <= LastCall.target
    /\ execute_next(cpu, overflow_checks) = OkV(cpu, 0)

\* C38: every call of execute_cycles(n) eventually returns for every program
\* none of whose steps errors, including when the program executes HLT or
\* JMP 0 (running becomes false) before total_cycles exceeds the target: the
\* loop is never in a state it cannot leave.
C38_ExecuteCyclesReturns == ~LoopStuck

----------------------------------------------------------------------------
(* Width of the accumulator *)

\* C39: in every state reachable through any sequence of Alu::evaluate and
\* Alu::write_accumulator calls that return Ok, with operands of any width
\* those calls accept, the accumulator holds an 8-bit value (0..255).
C39_AccumulatorIsByte ==
    AllOk => /\ cpu.alu.accumulator.t = "Integer8"
             /\ cpu.alu.accumulator.v \in U8

----------------------------------------------------------------------------
(* The inspector and the simulation thread *)

\* the program is running and the simulation thread is between two
\* instructions
BetweenInstructions ==
    Threads.sim = "loop" /\ Threads.steps >= 1 /\ cpu.running

\* each thread waits for a mutex the other one holds
Deadlocked ==
    /\ \/ Threads.sim = "start" /\ Threads.cpu_mutex = "ui"
       \/ Threads.sim = "loop" /\ Threads.out_mutex = "ui"
    /\ \/ Threads.ui = "frame" /\ Threads.cpu_mutex = "sim"
       \/ Threads.ui = "has_cpu" /\ Threads.out_mutex = "sim"

\* C40: in debug mode the inspector thread is able to acquire the CPU and read
\* its state between instructions while the program is still running (it is
\* not blocked until the program halts), and the two threads never deadlock on
\* the CPU and output-string locks.
C40_InspectorNotBlocked ==
    /\ (BetweenInstructions /\ Threads.ui = "frame") => Threads.cpu_mutex = "free"
    /\ ~Deadlocked

====
